---- MODULE Spec2Model ----
(***************************************************************************)
(* Layout of SlideRule.py: the layout grammar (parse_side_layout and its   *)
(* helpers), the validation of the scale names (check_scales) and the      *)
(* alignment inference (infer_aligns, scale_al).                           *)
(*                                                                         *)
(* A Python str is a sequence of symbols.  The delimiter characters are    *)
(* symbols of their own (" ", ",", "/", "[", "]", "|", "\n"); every other  *)
(* symbol stands for an identifier fragment that is never cut ("A", "CI",  *)
(* "IN_BIN").  A token is the sequence of symbols between two separators,  *)
(* so <<"A","B">> is the token AB, which names no scale.                   *)
(***************************************************************************)
EXTENDS Integers, Sequences, FiniteSets, TLC

VARIABLES front_str, rear_str, scale_ns, align_overrides,
          pc, sc_keys, scale_aligns, error

(* a call of the graduation engine (t_s, Renderer.pat, Renderer.pat_auto,  *)
(* Ruler.pat) and what it returned and drew                                *)
VARIABLES grad_call, grad_ret

layout_vars == <<front_str, rear_str, scale_ns, align_overrides,
                 pc, sc_keys, scale_aligns, error>>

grad_vars == <<grad_call, grad_ret>>

(* a round trip through a transform: the ScaleFN and the value handed to   *)
(* position_of, then the position and what value_at made of it             *)
VARIABLES scaler_call, scaler_ret

scaler_vars == <<scaler_call, scaler_ret>>

(* a label handed to symbol_parts and the parts returned *)
VARIABLES symbol_call, symbol_ret

symbol_vars == <<symbol_call, symbol_ret>>

(* a run of main(): the command line, the position in main, the images in  *)
(* memory, the files written and the exception that ended the run          *)
VARIABLES cli_args, main_pc, images, files, main_error

main_vars == <<cli_args, main_pc, images, files, main_error>>

(* the variables no step of Layout.__init__ touches *)
other_vars == <<grad_vars, scaler_vars, symbol_vars, main_vars>>

vars == <<layout_vars, other_vars>>

(* no call of the graduation engine is under way *)
GradIdle == grad_call = [op |-> "none"] /\ grad_ret = [status |-> "none"]

(* no round trip is under way *)
ScalerIdle == scaler_call = [op |-> "none"] /\ scaler_ret = [status |-> "none"]

(* no label is being taken apart *)
SymbolIdle == symbol_call = [op |-> "none"] /\ symbol_ret = [status |-> "none"]

(* main() is not running *)
MainIdle ==
    /\ cli_args = [op |-> "none"] /\ main_pc = "idle" /\ images = <<>>
    /\ files = {} /\ main_error = "none"

OthersIdle == GradIdle /\ ScalerIdle /\ SymbolIdle /\ MainIdle

----------------------------------------------------------------------------
(* Enumerations *)

FRONT == "front"
REAR == "rear"
Side == <<FRONT, REAR>>

STATOR_TOP == "stator_top"
SLIDE == "slide"
STATOR_BOTTOM == "stator_bottom"
RulePart == <<STATOR_TOP, SLIDE, STATOR_BOTTOM>>

UPPER == "upper"
LOWER == "lower"
Align == {UPPER, LOWER}

(* Python's None for a str argument, for a key and for an object.  The     *)
(* None that parse_segment_layout returns is the empty sequence: re.split  *)
(* never returns an empty list, so the encoding loses nothing.             *)
NoneStr == <<"<None>">>
NoKey == "<None>"
NoneList == <<>>

----------------------------------------------------------------------------
(* str and re primitives *)

Truthy(s) == s # NoneStr /\ s # <<>>

RECURSIVE LStrip(_, _)
LStrip(s, chars) ==
    IF s # <<>> /\ Head(s) \in chars THEN LStrip(Tail(s), chars) ELSE s

RECURSIVE RStrip(_, _)
RStrip(s, chars) ==
    IF s # <<>> /\ s[Len(s)] \in chars
    THEN RStrip(SubSeq(s, 1, Len(s) - 1), chars) ELSE s

(* str.strip(chars) *)
Strip(s, chars) == RStrip(LStrip(s, chars), chars)

Whitespace == {" ", "\n"}

(* str.strip() *)
StripWS(s) == Strip(s, Whitespace)

Contains(s, c) == \E i \in 1..Len(s) : s[i] = c

(* index of the first symbol of s that is in chars, 0 when there is none *)
RECURSIVE FindFirst(_, _, _)
FindFirst(s, chars, i) ==
    IF i > Len(s) THEN 0
    ELSE IF s[i] \in chars THEN i
    ELSE FindFirst(s, chars, i + 1)

(* str.split(c, maxsplit) and re.split('[chars]', s, maxsplit): split at   *)
(* single symbols of chars, at most maxsplit times                         *)
RECURSIVE SplitAt(_, _, _)
SplitAt(s, chars, maxsplit) ==
    LET i == FindFirst(s, chars, 1) IN
    IF maxsplit = 0 \/ i = 0 THEN <<s>>
    ELSE <<SubSeq(s, 1, i - 1)>>
         \o SplitAt(SubSeq(s, i + 1, Len(s)), chars, maxsplit - 1)

(* re.split('[chars]+', s): split at maximal runs of symbols of chars *)
RECURSIVE SplitRuns(_, _)
SplitRuns(s, chars) ==
    LET i == FindFirst(s, chars, 1) IN
    IF i = 0 THEN <<s>>
    ELSE <<SubSeq(s, 1, i - 1)>>
         \o SplitRuns(LStrip(SubSeq(s, i + 1, Len(s)), chars), chars)

(* str.splitlines(): "\n" ends a line, so no empty line follows the last *)
SplitLines(s) ==
    LET pieces == SplitAt(s, {"\n"}, Len(s)) IN
    IF pieces[Len(pieces)] = <<>>
    THEN SubSeq(pieces, 1, Len(pieces) - 1) ELSE pieces

----------------------------------------------------------------------------
(* Layout grammar *)

parse_segment_layout(segment_layout) ==
    IF segment_layout # <<>>
    THEN SplitRuns(Strip(segment_layout, {" "}), {",", " "})
    ELSE NoneList

(* side_layout.split('/', 1): a split that keeps the second '/' in the slide *)
SplitSlashOnce(side_layout) == SplitAt(side_layout, {"/"}, 1)

(* side_layout.split('/', 2) *)
SplitSlash(side_layout) == SplitAt(side_layout, {"/"}, 2)

parts_of_side_layout(side_layout0) ==
    LET side_layout == Strip(side_layout0, {" ", "|"})
        parts == IF Contains(side_layout, "/")
                 THEN SplitSlash(side_layout)
                 ELSE IF Contains(side_layout, "[") /\ Contains(side_layout, "]")
                 THEN SplitAt(side_layout, {"[", "]"}, 2)
                 ELSE <<>>
    IN  IF parts # <<>>
        THEN [k \in 1..Len(parts) |-> StripWS(parts[k])]
        ELSE <<side_layout, <<>>, <<>>>>

parse_side_layout(layout) ==
    LET parts == parts_of_side_layout(Strip(layout, {" ", "|"}))
        major_parts == [k \in 1..Len(parts) |-> parse_segment_layout(parts[k])]
        num_parts == Len(major_parts)
        none == [p \in {STATOR_TOP, SLIDE, STATOR_BOTTOM} |-> NoneList]
    IN  IF ~Truthy(layout) THEN none
        ELSE IF num_parts = 1
        THEN [none EXCEPT ![SLIDE] = major_parts]
        ELSE IF num_parts = 3
        THEN [none EXCEPT ![STATOR_TOP] = major_parts[1],
                          ![SLIDE] = major_parts[2],
                          ![STATOR_BOTTOM] = major_parts[3]]
        ELSE none

----------------------------------------------------------------------------
(* Scale and Ruler catalogs: attribute name :> object.  Of a Scale only    *)
(* the fields the Layout reads are kept: key and opp_key.                  *)

Sc(key, opp_key) == [kind |-> "Scale", key |-> key, opp_key |-> opp_key]
Rl(key) == [kind |-> "Ruler", key |-> key, opp_key |-> NoKey]
NoneObj == [kind |-> "None", key |-> NoKey, opp_key |-> NoKey]
StrObj == [kind |-> "str", key |-> NoKey, opp_key |-> NoKey]

Scales ==
    ("A" :> Sc("A", "B")) @@ ("B" :> Sc("B", "A")) @@ ("BI" :> Sc("BI", NoKey))
    @@ ("C" :> Sc("C", "D")) @@ ("CF" :> Sc("CF", "DF")) @@ ("DF" :> Sc("DF", "CF"))
    @@ ("CI" :> Sc("CI", "DI")) @@ ("CIF" :> Sc("CIF", NoKey))
    @@ ("D" :> Sc("D", "C")) @@ ("DI" :> Sc("DI", "CI"))
    @@ ("K" :> Sc("K", NoKey)) @@ ("L" :> Sc("L", NoKey)) @@ ("Ln" :> Sc("Ln", NoKey))
    @@ ("LL0" :> Sc("LL0", NoKey)) @@ ("LL1" :> Sc("LL1", NoKey))
    @@ ("LL2" :> Sc("LL2", NoKey)) @@ ("LL3" :> Sc("LL3", NoKey))
    @@ ("LL00" :> Sc("LL00", NoKey)) @@ ("LL01" :> Sc("LL01", NoKey))
    @@ ("LL02" :> Sc("LL02", NoKey)) @@ ("LL03" :> Sc("LL03", NoKey))
    @@ ("P" :> Sc("P", NoKey)) @@ ("R1" :> Sc("R1", NoKey)) @@ ("R2" :> Sc("R2", NoKey))
    @@ ("S" :> Sc("S", NoKey)) @@ ("CoS" :> Sc("CoS", NoKey)) @@ ("ST" :> Sc("ST", NoKey))
    @@ ("T" :> Sc("T", NoKey)) @@ ("CoT" :> Sc("CoT", NoKey))
    @@ ("T1" :> Sc("T1", NoKey)) @@ ("T2" :> Sc("T2", NoKey))
    @@ ("W1" :> Sc("W1", "W1Prime")) @@ ("W1Prime" :> Sc("W1Prime", "W1"))
    @@ ("W2" :> Sc("W2", "W2Prime")) @@ ("W2Prime" :> Sc("W2Prime", "W2"))
    @@ ("H1" :> Sc("H1", NoKey)) @@ ("H2" :> Sc("H2", NoKey))
    @@ ("Sh1" :> Sc("Sh1", NoKey)) @@ ("Sh2" :> Sc("Sh2", NoKey))
    @@ ("Ch1" :> Sc("Ch", NoKey)) @@ ("Th" :> Sc("Th", NoKey))
    @@ ("Chi" :> Sc("chi", NoKey)) @@ ("Theta" :> Sc("Theta", NoKey))
    @@ ("f_x" :> Sc("f_x", NoKey)) @@ ("L_r" :> Sc("L_r", NoKey))

(* dataclasses.replace keeps the key of the scale it copies: Z is a copy   *)
(* of Scales.D with no new key, so its key is "D"                          *)
AristoCommerzScales ==
    ("Z" :> Sc("D", "T1")) @@ ("T1" :> Sc("T1", "Z")) @@ ("P1" :> Sc("P1", "DI"))
    @@ ("KZ" :> Sc("KZ", "DF")) @@ ("T2" :> Sc("T2", "DF")) @@ ("P2" :> Sc("P2", NoKey))
    @@ ("Pct" :> Sc("p%", NoKey)) @@ ("Libra" :> Sc("Libra", NoKey))

Rulers ==
    ("PT" :> Rl("pt")) @@ ("CM" :> Rl("cm")) @@ ("IN_DEC" :> Rl("in"))
    @@ ("IN_BIN" :> Rl("in")) @@ ("IN" :> Rl("in"))

(* the classes a Layout can be given as scale_ns, by name *)
Namespace(ns) == IF ns = "AristoCommerzScales" THEN AristoCommerzScales ELSE Scales

(* The attributes every class object has besides the ones its body sets.   *)
(* __doc__ is None for Scales and Rulers (no docstring) and a str for      *)
(* AristoCommerzScales.                                                    *)
ClassAttrs == {"__doc__"}

ClassAttr(cls, name) == IF cls = "AristoCommerzScales" THEN StrObj ELSE NoneObj

(* The name a token spells.  Only a one-symbol token can spell an          *)
(* attribute name: no two symbols of the inputs put together do.           *)
IsName(token) == Len(token) = 1

(* hasattr(cls, token), cls one of "Scales", "AristoCommerzScales", "Rulers" *)
ClassMap(cls) == IF cls = "Rulers" THEN Rulers ELSE Namespace(cls)

hasattr(cls, token) ==
    IsName(token) /\ token[1] \in (DOMAIN ClassMap(cls)) \cup ClassAttrs

(* getattr(cls, token, None) *)
getattr(cls, token) ==
    IF IsName(token) /\ token[1] \in DOMAIN ClassMap(cls) THEN ClassMap(cls)[token[1]]
    ELSE IF IsName(token) /\ token[1] \in ClassAttrs THEN ClassAttr(cls, token[1])
    ELSE NoneObj

(* truth value of an object: None is false, a Scale, a Ruler, a non-empty  *)
(* str are true                                                            *)
ObjTruthy(o) == o.kind # "None"

----------------------------------------------------------------------------
(* Layout methods *)

(* sc_keys_in_order: front before rear, stator_top, slide, stator_bottom *)
sc_keys_in_order(keys) ==
    keys[FRONT][STATOR_TOP] \o keys[FRONT][SLIDE] \o keys[FRONT][STATOR_BOTTOM]
    \o keys[REAR][STATOR_TOP] \o keys[REAR][SLIDE] \o keys[REAR][STATOR_BOTTOM]

Recognized(ns, scale_name) == hasattr(ns, scale_name) \/ hasattr("Rulers", scale_name)

(* check_scales: index in sc_keys_in_order of the scale name that raises,  *)
(* 0 when none does                                                        *)
RECURSIVE check_scales(_, _, _)
check_scales(ns, names, i) ==
    IF i > Len(names) THEN 0
    ELSE IF ~Recognized(ns, names[i]) THEN i
    ELSE check_scales(ns, names, i + 1)

scales_at(ns, keys, side, part) ==
    [i \in 1..Len(keys[side][part]) |->
        LET sc_name == keys[side][part][i]
            first == getattr(ns, sc_name)
        IN  IF ObjTruthy(first) THEN first ELSE getattr("Rulers", sc_name)]

DictSet(d, k, v) == (k :> v) @@ d

(* line 1232: the edge a Ruler is aligned to *)
RulerAlign(part) == IF part = STATOR_TOP THEN UPPER ELSE LOWER

(* line 1233 with the index counted as the source counts it, from 0 *)
IsFirstOfSlideFromZero(i, part) == i = 0 /\ part = SLIDE

(* line 1233, i counted from 1 *)
IsFirstOfSlide(i, part) == i = 1 /\ part = SLIDE

(* line 1235 for the upper stator alone *)
IsLastOfUpperStator(i, last_i, part) == i = last_i /\ part = STATOR_TOP

(* line 1235 without the test of the part *)
IsLastOfAnyPart(i, last_i, part) == i = last_i

(* line 1235 *)
IsLastOfUpperPart(i, last_i, part) == i = last_i /\ part # STATOR_BOTTOM

(* line 1238 with the two alignments exchanged *)
PartnerAlignSwapped(sc, side_seen) == IF sc.opp_key \in side_seen THEN LOWER ELSE UPPER

(* line 1238 *)
PartnerAlign(sc, side_seen) == IF sc.opp_key \in side_seen THEN UPPER ELSE LOWER

(* the body of the loop without the test of line 1230: an entry that is   *)
(* already in side_overrides is replaced                                   *)
InferOneOverwriting(acc, part, i, last_i, sc) ==
    [acc EXCEPT
        !.aligns =
            IF sc.kind = "Ruler"
            THEN DictSet(@, sc.key, RulerAlign(part))
            ELSE IF IsFirstOfSlide(i, part)
            THEN DictSet(@, sc.key, UPPER)
            ELSE IF IsLastOfUpperPart(i, last_i, part)
            THEN DictSet(@, sc.key, LOWER)
            ELSE IF sc.opp_key # NoKey
            THEN DictSet(@, sc.key, PartnerAlign(sc, acc.seen))
            ELSE @,
        !.seen = @ \cup {sc.key}]

(* the body of the loop over part_scales for the scale sc at index i.      *)
(* acc = [aligns |-> side_overrides, seen |-> side_seen, raised |-> ...]   *)
InferOne(acc, part, i, last_i, sc) ==
    [acc EXCEPT
        !.aligns =
            IF sc.key \notin DOMAIN acc.aligns
            THEN IF sc.kind = "Ruler"
                 THEN DictSet(@, sc.key, RulerAlign(part))
                 ELSE IF IsFirstOfSlide(i, part)
                 THEN DictSet(@, sc.key, UPPER)
                 ELSE IF IsLastOfUpperPart(i, last_i, part)
                 THEN DictSet(@, sc.key, LOWER)
                 ELSE IF sc.opp_key # NoKey
                 THEN DictSet(@, sc.key, PartnerAlign(sc, acc.seen))
                 ELSE @
            ELSE @,
        !.seen = @ \cup {sc.key}]

RECURSIVE InferPart(_, _, _, _)
InferPart(acc, part, part_scales, i) ==
    IF i > Len(part_scales) \/ acc.raised THEN acc
    ELSE IF part_scales[i].kind \notin {"Scale", "Ruler"}
    THEN [acc EXCEPT !.raised = TRUE]      \* sc.key: AttributeError
    ELSE InferPart(InferOne(acc, part, i, Len(part_scales), part_scales[i]),
                   part, part_scales, i + 1)

InferSide(ns, keys, side, side_overrides) ==
    LET a0 == [aligns |-> side_overrides, seen |-> {}, raised |-> FALSE]
        a1 == InferPart(a0, STATOR_TOP, scales_at(ns, keys, side, STATOR_TOP), 1)
        a2 == InferPart(a1, SLIDE, scales_at(ns, keys, side, SLIDE), 1)
    IN  InferPart(a2, STATOR_BOTTOM, scales_at(ns, keys, side, STATOR_BOTTOM), 1)

(* InferSide with side_seen starting as the given set and not as set()     *)
InferSideFrom(ns, keys, side, side_overrides, side_seen) ==
    LET a0 == [aligns |-> side_overrides, seen |-> side_seen, raised |-> FALSE]
        a1 == InferPart(a0, STATOR_TOP, scales_at(ns, keys, side, STATOR_TOP), 1)
        a2 == InferPart(a1, SLIDE, scales_at(ns, keys, side, SLIDE), 1)
    IN  InferPart(a2, STATOR_BOTTOM, scales_at(ns, keys, side, STATOR_BOTTOM), 1)

(* infer_aligns with line 1223, side_seen = set(), moved out of the loop   *)
(* over the sides: the rear side starts with the keys seen on the front    *)
infer_aligns_one_seen(ns, keys, aligns) ==
    LET f == InferSide(ns, keys, FRONT, aligns[FRONT])
        r == IF f.raised THEN [aligns |-> aligns[REAR], seen |-> {}, raised |-> TRUE]
             ELSE InferSideFrom(ns, keys, REAR, aligns[REAR], f.seen)
    IN  [aligns |-> (FRONT :> f.aligns) @@ (REAR :> r.aligns), raised |-> r.raised]

(* infer_aligns: the front side, then the rear side unless the front raised *)
infer_aligns(ns, keys, aligns) ==
    LET f == InferSide(ns, keys, FRONT, aligns[FRONT])
        r == IF f.raised THEN [aligns |-> aligns[REAR], seen |-> {}, raised |-> TRUE]
             ELSE InferSide(ns, keys, REAR, aligns[REAR])
    IN  [aligns |-> (FRONT :> f.aligns) @@ (REAR :> r.aligns), raised |-> r.raised]

(* scale_al with LOWER as the default of every part *)
scale_al_lower_default(aligns, sc, side, part) ==
    IF sc.key \in DOMAIN aligns[side] THEN aligns[side][sc.key] ELSE LOWER

(* scale_al(sc, side, part) on the alignment map aligns *)
scale_al(aligns, sc, side, part) ==
    LET default_al == IF part = STATOR_BOTTOM THEN UPPER ELSE LOWER
    IN  IF sc.key \in DOMAIN aligns[side] THEN aligns[side][sc.key] ELSE default_al

----------------------------------------------------------------------------
(* The calls Layout(front_str, rear_str, scale_ns, align_overrides) that   *)
(* are explored.                                                           *)

MaxLen == 3        \* longest line taken symbol by symbol
MaxTokens == 3     \* most scale names on a generated line

Symbols == {"A", " ", ",", "/", "[", "]", "|", "\n"}

Strings(n) == UNION {[1..k -> Symbols] : k \in 0..n}

(* scale names of generated lines: an opposite pair, a scale without       *)
(* partner and a ruler                                                     *)
GenTokens == {<<"A">>, <<"B">>, <<"K">>, <<"CM">>}

TokenLists(n) == UNION {[1..k -> GenTokens] : k \in 0..n}

RECURSIVE Join(_, _)
Join(tokens, sep) ==
    IF tokens = <<>> THEN <<>>
    ELSE IF Len(tokens) = 1 THEN tokens[1]
    ELSE tokens[1] \o sep \o Join(Tail(tokens), sep)

(* "t/s/b" with spaces between the names *)
SlashLine(t, s, b) == Join(t, <<" ">>) \o <<"/">> \o Join(s, <<" ">>) \o <<"/">> \o Join(b, <<" ">>)

(* "t [s] b" with ", " between the names *)
BracketLine(t, s, b) ==
    Join(t, <<",", " ">>) \o <<" ", "[">> \o Join(s, <<",", " ">>) \o <<"]", " ">> \o Join(b, <<",", " ">>)

(* every way to cut at most n names into upper stator, slide, lower stator *)
GenLines(n) ==
    UNION {{SlashLine(SubSeq(names, 1, i), SubSeq(names, i + 1, j), SubSeq(names, j + 1, Len(names))),
            BracketLine(SubSeq(names, 1, i), SubSeq(names, i + 1, j), SubSeq(names, j + 1, Len(names)))} :
            <<names, i, j>> \in {x \in TokenLists(n) \X (0..n) \X (0..n) :
                                 x[2] <= x[3] /\ x[3] <= Len(x[1])}}

(* the layouts of class Layouts and of the rulers-only demo model *)
MannheimOriginalFront == <<"A", "/", "B", " ", "C", "/", "D">>
MannheimFront == <<"A", "/", "B", " ", "CI", " ", "C", "/", "D", " ", "K">>
MannheimRear == <<"[", "S", " ", "L", " ", "T", "]">>
DarmstadtFront ==
    <<"K", " ", "A", "/", "B", " ", "K", " ", "CI", " ", "C", "/", "D", " ", "P">>
DarmstadtRear == <<"[", "LL1", " ", "LL2", " ", "LL3", "]">>
RulersFront == <<"IN", " ", "[", "]", " ", "CM">>
Aristo965Front ==
    <<"Pct", " ", "KZ", " ", "[", "T2", " ", "P2", " ", "P1", " ", "T1", "]", " ", "Z">>
SlideSegmentABCI == <<"[", "A", " ", "B", " ", "CI", "]">>

RearLine == <<"B", " ", "A", "/", "K", "/", "CM">>

NoOverrides == [none |-> TRUE, d |-> <<>>]
Overrides(d) == [none |-> FALSE, d |-> d]

(* rear_str and align_overrides of the calls whose front line is taken     *)
(* symbol by symbol; Q names no scale                                      *)
StringArgs == {<<<<>>, NoOverrides>>, <<<<"Q">>, NoOverrides>>}

(* rear_str and align_overrides of the calls with a generated front line *)
GenArgs ==
    { <<NoneStr, NoOverrides>>,
      <<RearLine, NoOverrides>>,
      <<<<>>, Overrides(FRONT :> ("A" :> LOWER))>>,
      <<RearLine, Overrides((FRONT :> ("K" :> UPPER)) @@ (REAR :> ("B" :> UPPER)))>> }

Call(f, r, ns, o) == [front_str |-> f, rear_str |-> r, scale_ns |-> ns, align_overrides |-> o]

Calls ==
    {Call(f, a[1], "Scales", a[2]) : f \in Strings(MaxLen), a \in StringArgs}
    \cup {Call(f, a[1], "Scales", a[2]) : f \in GenLines(MaxTokens), a \in GenArgs}
    \cup {Call(MannheimOriginalFront, <<>>, "Scales", NoOverrides),
          Call(MannheimFront, MannheimRear, "Scales", NoOverrides),
          Call(DarmstadtFront, DarmstadtRear, "Scales", NoOverrides),
          Call(RulersFront, NoneStr, "Scales", NoOverrides),
          Call(MannheimOriginalFront, RulersFront, "Scales", NoOverrides),
          Call(<<"IN", "/", "/", "IN_BIN">>, NoneStr, "Scales", NoOverrides),
          Call(<<"__doc__", "/", "A", "/">>, <<>>, "Scales", NoOverrides),
          Call(SlideSegmentABCI, <<>>, "Scales", NoOverrides),
          Call(Aristo965Front, <<>>, "AristoCommerzScales",
               Overrides(FRONT :> ("P2" :> UPPER))),
          Call(<<"Z", "/", "T1", "/">>, <<"__doc__">>, "AristoCommerzScales", NoOverrides)}

----------------------------------------------------------------------------
(* Layout.__init__ *)

NoError == [type |-> "none", token |-> <<>>]
ValueError(token) == [type |-> "ValueError", token |-> token]
UnpackError == [type |-> "ValueError: unpack", token |-> <<>>]
AttributeError == [type |-> "AttributeError", token |-> <<>>]

NoKeys == [side \in {FRONT, REAR} |-> [p \in {STATOR_TOP, SLIDE, STATOR_BOTTOM} |-> NoneList]]
NoAligns == [side \in {FRONT, REAR} |-> <<>>]

Init ==
    /\ \E c \in Calls :
        /\ front_str = c.front_str
        /\ rear_str = c.rear_str
        /\ scale_ns = c.scale_ns
        /\ align_overrides = c.align_overrides
    /\ pc = "start"
    /\ sc_keys = NoKeys
    /\ scale_aligns = NoAligns
    /\ error = NoError
    /\ OthersIdle

(* lines 1156-1161: split a two-line front_str, parse both sides *)
ParseLayout ==
    /\ pc = "start"
    /\ LET splits == ~Truthy(rear_str) /\ Contains(front_str, "\n")
           lines == SplitLines(front_str)
       IN  IF splits /\ Len(lines) # 2
           THEN /\ pc' = "raised"
                /\ error' = UnpackError
                /\ UNCHANGED <<front_str, rear_str, sc_keys>>
           ELSE /\ front_str' = IF splits THEN lines[1] ELSE front_str
                /\ rear_str' = IF splits THEN lines[2] ELSE rear_str
                /\ sc_keys' = (FRONT :> parse_side_layout(front_str'))
                              @@ (REAR :> parse_side_layout(rear_str'))
                /\ pc' = "parsed"
                /\ UNCHANGED error
    /\ UNCHANGED <<scale_ns, align_overrides, scale_aligns>>
    /\ UNCHANGED other_vars

(* lines 1162-1163: check_scales *)
CheckScales ==
    /\ pc = "parsed"
    /\ LET names == sc_keys_in_order(sc_keys)
           bad == check_scales(scale_ns, names, 1)
       IN  IF bad # 0
           THEN pc' = "raised" /\ error' = ValueError(names[bad])
           ELSE pc' = "checked" /\ UNCHANGED error
    /\ UNCHANGED <<front_str, rear_str, scale_ns, align_overrides, sc_keys, scale_aligns>>
    /\ UNCHANGED other_vars

(* align_overrides.get(side, {}) *)
OverridesGet(o, side) == IF side \in DOMAIN o.d THEN o.d[side] ELSE <<>>

(* lines 1164-1166: scale_aligns starts as the per-side dicts of            *)
(* align_overrides, the very objects, and infer_aligns fills them in: a     *)
(* per-side dict the caller passed is changed along with scale_aligns       *)
InferAligns ==
    /\ pc = "checked"
    /\ LET start == (FRONT :> OverridesGet(align_overrides, FRONT))
                    @@ (REAR :> OverridesGet(align_overrides, REAR))
           res == infer_aligns(scale_ns, sc_keys, start)
       IN  /\ scale_aligns' = res.aligns
           /\ align_overrides' =
                [align_overrides EXCEPT !.d = [side \in DOMAIN @ |-> res.aligns[side]]]
           /\ IF res.raised
              THEN pc' = "raised" /\ error' = AttributeError
              ELSE pc' = "done" /\ UNCHANGED error
    /\ UNCHANGED <<front_str, rear_str, scale_ns, sc_keys>>
    /\ UNCHANGED other_vars

Next == ParseLayout \/ CheckScales \/ InferAligns

Spec == Init /\ [][Next]_vars

----------------------------------------------------------------------------
(* What the properties speak of *)

Sides == {FRONT, REAR}
Parts == {STATOR_TOP, SLIDE, STATOR_BOTTOM}

(* __init__ got past the parsing of both lines *)
Parsed == pc \in {"parsed", "checked", "done"} \/ (pc = "raised" /\ error # UnpackError)

LineOf(side) == IF side = FRONT THEN front_str ELSE rear_str

(* a token that is the name of a Scale of the namespace or of a Ruler *)
Resolves(ns, token) ==
    IsName(token) /\ token[1] \in (DOMAIN Namespace(ns)) \cup (DOMAIN Rulers)

(* the names of one segment of a line, as separated by commas and spaces *)
TokensOf(segment) ==
    IF Strip(segment, {" "}) = <<>> THEN <<>>
    ELSE SplitRuns(Strip(segment, {" "}), {",", " "})

(* the segments of a line: the text between its delimiters, all of them *)
SegmentsOf(line) ==
    IF ~Truthy(line) THEN <<>>
    ELSE SplitAt(Strip(line, {" ", "|"}), {"/", "[", "]"}, Len(line))

(* the names of a line in the order they are written *)
RECURSIVE TokensOfAll(_)
TokensOfAll(segments) ==
    IF segments = <<>> THEN <<>>
    ELSE TokensOf(Head(segments)) \o TokensOfAll(Tail(segments))

TextTokens(line) == TokensOfAll(SegmentsOf(line))

Count(line, c) == Cardinality({i \in 1..Len(line) : line[i] = c})

NoDelimiter(line) == Count(line, "/") = 0 /\ Count(line, "[") = 0 /\ Count(line, "]") = 0

Slashed(line) == Count(line, "/") \in {1, 2} /\ Count(line, "[") = 0 /\ Count(line, "]") = 0

Bracketed(line) ==
    /\ Count(line, "/") = 0 /\ Count(line, "[") = 1 /\ Count(line, "]") = 1
    /\ FindFirst(line, {"["}, 1) < FindFirst(line, {"]"}, 1)

SegmentOr(segments, k) == IF k <= Len(segments) THEN TokensOf(segments[k]) ELSE <<>>

(* the first token in layout order that does not resolve, <<"<None>">>    *)
(* when all do                                                             *)
FirstUnresolved(ns, keys) ==
    LET order == <<<<FRONT, STATOR_TOP>>, <<FRONT, SLIDE>>, <<FRONT, STATOR_BOTTOM>>,
                   <<REAR, STATOR_TOP>>, <<REAR, SLIDE>>, <<REAR, STATOR_BOTTOM>>>>
        bad(k) == {i \in 1..Len(keys[order[k][1]][order[k][2]]) :
                     ~Resolves(ns, keys[order[k][1]][order[k][2]][i])}
        parts == {k \in 1..6 : bad(k) # {}}
    IN  IF parts = {} THEN NoneStr
        ELSE LET k == CHOOSE k \in parts : \A j \in parts : k <= j
                 i == CHOOSE i \in bad(k) : \A j \in bad(k) : i <= j
             IN  keys[order[k][1]][order[k][2]][i]

----------------------------------------------------------------------------
(* C1: a Layout whose text has a token that is neither a Scale of the      *)
(* namespace nor a Ruler is never validated, so construction never gets to *)
(* infer_aligns; and the ValueError of check_scales names the first token  *)
(* in layout order that does not resolve.                                  *)
C1_UnresolvedTokenIsNamed ==
    /\ pc \in {"checked", "done"} =>
         \A side \in Sides : \A i \in 1..Len(TextTokens(LineOf(side))) :
            LET token == TextTokens(LineOf(side))[i]
            IN  (token # <<>> /\ ~Contains(token, "\n") /\ ~Contains(token, "|"))
                    => Resolves(scale_ns, token)
    /\ (pc = "raised" /\ error.type = "ValueError") =>
         error.token = FirstUnresolved(scale_ns, sc_keys)

(* C2: a line without '/' and without brackets is slide-only: its names   *)
(* are the slide list, both stator lists are empty.                        *)
C2_NoDelimiterIsSlideOnly ==
    \A side \in Sides :
        (Parsed /\ Truthy(LineOf(side)) /\ NoDelimiter(LineOf(side))) =>
            /\ sc_keys[side][SLIDE] = TextTokens(LineOf(side))
            /\ sc_keys[side][STATOR_TOP] = <<>>
            /\ sc_keys[side][STATOR_BOTTOM] = <<>>

(* C3: for a line without delimiter, with one or two slashes, or with one  *)
(* pair of brackets, whose names all resolve, the three lists are the      *)
(* names before the first delimiter, between the delimiters and after the  *)
(* second delimiter, and together they are the names of the line in order. *)
C3_ParseKeepsEveryToken ==
    \A side \in Sides :
        LET line == LineOf(side)
            segments == SegmentsOf(line)
        IN  ( /\ Parsed /\ Truthy(line) /\ Count(line, "\n") = 0
              /\ NoDelimiter(line) \/ Slashed(line) \/ Bracketed(line)
              /\ \A i \in 1..Len(TextTokens(line)) : Resolves(scale_ns, TextTokens(line)[i]) )
            =>
            /\ sc_keys[side][STATOR_TOP] = SegmentOr(segments, 1)
            /\ sc_keys[side][SLIDE] = SegmentOr(segments, 2)
            /\ sc_keys[side][STATOR_BOTTOM] = SegmentOr(segments, 3)
            /\ sc_keys[side][STATOR_TOP] \o sc_keys[side][SLIDE] \o sc_keys[side][STATOR_BOTTOM]
                 = TextTokens(line)

MannheimOriginalCall == front_str = MannheimOriginalFront /\ rear_str = <<>>

(* C4 as stated: 'A/B C/D' with an empty rear line gives front upper       *)
(* stator [A] and front slide [B], and three empty rear lists.             *)
C4_SlideIsB ==
    (Parsed /\ MannheimOriginalCall) =>
        /\ sc_keys[FRONT][STATOR_TOP] = <<<<"A">>>>
        /\ sc_keys[FRONT][SLIDE] = <<<<"B">>>>
        /\ sc_keys[REAR] = NoKeys[REAR]

(* C4, amended: 'A/B C/D' with an empty rear line gives front upper stator *)
(* [A], front slide [B, C] and front lower stator [D], and three empty     *)
(* rear lists.                                                             *)
C4_MannheimOriginalParts ==
    (Parsed /\ MannheimOriginalCall) =>
        /\ sc_keys[FRONT][STATOR_TOP] = <<<<"A">>>>
        /\ sc_keys[FRONT][SLIDE] = <<<<"B">>, <<"C">>>>
        /\ sc_keys[FRONT][STATOR_BOTTOM] = <<<<"D">>>>
        /\ sc_keys[REAR] = NoKeys[REAR]

C4_Witness ==
    /\ pc = "done" /\ MannheimOriginalCall
    /\ Len(sc_keys[FRONT][SLIDE]) = 2 /\ sc_keys[FRONT][STATOR_BOTTOM] # <<>>

----------------------------------------------------------------------------
(* Alignment: what is placed where *)

(* the scales of a side in layout order, each with its part, its index in  *)
(* the part (from 1) and the length of the part                            *)
Placed(side) ==
    LET seg(part) ==
            LET part_scales == scales_at(scale_ns, sc_keys, side, part)
            IN  [i \in 1..Len(part_scales) |->
                    [part |-> part, i |-> i, last_i |-> Len(part_scales), sc |-> part_scales[i]]]
    IN  seg(STATOR_TOP) \o seg(SLIDE) \o seg(STATOR_BOTTOM)

(* the step of __init__ that runs infer_aligns to its end *)
Inferred == pc = "checked" /\ pc' = "done"

(* the caller gave an alignment for the key on that side *)
Overridden(side, sc) == sc.key \in DOMAIN OverridesGet(align_overrides, side)

IsRuler(sc) == sc.kind = "Ruler"
FirstOfSlide(p) == p.part = SLIDE /\ p.i = 1
LastOfUpperPart(p) == p.part # STATOR_BOTTOM /\ p.i = p.last_i

PartnerPlacedEarlier(P, n) ==
    P[n].sc.opp_key # NoKey /\ \E m \in 1..(n - 1) : P[m].sc.key = P[n].sc.opp_key

KeyPlacedEarlier(P, n) == \E m \in 1..(n - 1) : P[m].sc.key = P[n].sc.key

KeyPlacedOnce(P, n) == \A m \in 1..Len(P) : m # n => P[m].sc.key # P[n].sc.key

(* not overridden, not a Ruler, not first of the slide, not last of the    *)
(* upper stator or of the slide                                            *)
PlainCase(side, P, n) ==
    /\ ~Overridden(side, P[n].sc) /\ ~IsRuler(P[n].sc)
    /\ ~FirstOfSlide(P[n]) /\ ~LastOfUpperPart(P[n])

(* a placement has a rule of infer_aligns that applies to it *)
HasRule(p) == IsRuler(p.sc) \/ FirstOfSlide(p) \/ LastOfUpperPart(p) \/ p.sc.opp_key # NoKey

(* the alignment the renderer gets for a placement once __init__ is done *)
UsedAl(aligns, side, p) == scale_al(aligns, p.sc, side, p.part)

(* the slide of a side is [A, B, CI], and A and B are free *)
SlideABCI(side) ==
    /\ sc_keys[side][SLIDE] = <<<<"A">>, <<"B">>, <<"CI">>>>
    /\ "A" \notin DOMAIN OverridesGet(align_overrides, side)
    /\ "B" \notin DOMAIN OverridesGet(align_overrides, side)

NoneGiven == align_overrides.none

----------------------------------------------------------------------------
(* C5 as stated: once the Layout is constructed, every placed key of every *)
(* side has an entry in the alignment map of that side.                    *)
C5_EveryPlacedKeyHasEntry ==
    pc = "done" =>
        \A side \in Sides : \A n \in 1..Len(Placed(side)) :
            Placed(side)[n].sc.key \in DOMAIN scale_aligns[side]

(* C5, amended: once the Layout is constructed, a placed key has an entry  *)
(* in the alignment map of its side exactly when it was overridden or one  *)
(* of its placements on that side is a Ruler, the first scale of the       *)
(* slide, the last scale of the upper stator or of the slide, or a scale   *)
(* that declares an opposite partner; every other placed key has no entry  *)
(* and is left to the default of scale_al.                                 *)
C5_EntryIffRuleApplies ==
    [][Inferred =>
        \A side \in Sides : \A n \in 1..Len(Placed(side)) :
            LET P == Placed(side) IN
            (P[n].sc.key \in DOMAIN scale_aligns'[side])
            <=> ( \/ Overridden(side, P[n].sc)
                  \/ \E m \in 1..Len(P) : P[m].sc.key = P[n].sc.key /\ HasRule(P[m]) )
      ]_vars

C5_Witness ==
    /\ pc = "done" /\ NoneGiven
    /\ \E side \in Sides : \E n, m \in 1..Len(Placed(side)) :
        /\ Placed(side)[n].sc.key \notin DOMAIN scale_aligns[side]
        /\ Placed(side)[m].sc.key \in DOMAIN scale_aligns[side]

(* C6 as stated: a scale that is not overridden, not a Ruler, not first of *)
(* the slide and not last of the upper stator or slide, and whose opposite *)
(* partner was placed earlier on the side, is aligned UPPER; in the slide  *)
(* [A, B, CI] both A and B are UPPER.                                      *)
C6_PartnerPlacedGivesUpper ==
    [][Inferred =>
        \A side \in Sides :
            LET P == Placed(side) IN
            /\ \A n \in 1..Len(P) :
                (PlainCase(side, P, n) /\ PartnerPlacedEarlier(P, n))
                    => UsedAl(scale_aligns', side, P[n]) = UPPER
            /\ SlideABCI(side) =>
                /\ scale_al(scale_aligns', Scales["A"], side, SLIDE) = UPPER
                /\ scale_al(scale_aligns', Scales["B"], side, SLIDE) = UPPER
      ]_vars

(* C6, amended: the same for a scale whose own key was not placed earlier  *)
(* on the side; in the slide [A, B, CI] of a side whose upper stator holds *)
(* neither A nor B, both A and B are UPPER.                                *)
C6_FirstPlacementPartnerPlacedGivesUpper ==
    [][Inferred =>
        \A side \in Sides :
            LET P == Placed(side) IN
            /\ \A n \in 1..Len(P) :
                (PlainCase(side, P, n) /\ PartnerPlacedEarlier(P, n) /\ ~KeyPlacedEarlier(P, n))
                    => UsedAl(scale_aligns', side, P[n]) = UPPER
            /\ ( /\ SlideABCI(side)
                 /\ \A i \in 1..Len(sc_keys[side][STATOR_TOP]) :
                        sc_keys[side][STATOR_TOP][i] \notin {<<"A">>, <<"B">>} ) =>
                /\ scale_al(scale_aligns', Scales["A"], side, SLIDE) = UPPER
                /\ scale_al(scale_aligns', Scales["B"], side, SLIDE) = UPPER
      ]_vars

C6_Witness ==
    /\ pc = "done" /\ NoneGiven
    /\ \E side \in Sides :
        LET P == Placed(side) IN
        /\ sc_keys[side][SLIDE] = <<<<"A">>, <<"B">>, <<"CI">>>>
        /\ \E n \in 1..Len(P) :
            /\ P[n].sc.key = "B" /\ ~IsRuler(P[n].sc) /\ ~FirstOfSlide(P[n]) /\ ~LastOfUpperPart(P[n])
            /\ PartnerPlacedEarlier(P, n) /\ ~KeyPlacedEarlier(P, n)
            /\ UsedAl(scale_aligns, side, P[n]) = UPPER

(* C7 as stated: a scale that is not overridden, not a Ruler, not first of *)
(* the slide and not last of the upper stator or slide, and whose opposite *)
(* partner was not placed earlier on the side (or that declares none), is  *)
(* given LOWER by scale_al in every part, the lower stator included.       *)
C7_NoPartnerPlacedGivesLower ==
    [][Inferred =>
        \A side \in Sides :
            LET P == Placed(side) IN
            \A n \in 1..Len(P) :
                (PlainCase(side, P, n) /\ ~PartnerPlacedEarlier(P, n))
                    => UsedAl(scale_aligns', side, P[n]) = LOWER
      ]_vars

(* C7, amended: such a scale, when its key was not placed earlier on the   *)
(* side and, if it declares no partner, is not placed again later on the   *)
(* side, is given LOWER by scale_al, except that a scale that declares no  *)
(* partner and stands in the lower stator has no map entry and is given    *)
(* the default of the lower stator, UPPER.                                 *)
C7_NoPartnerPlacedGivesLowerOrDefault ==
    [][Inferred =>
        \A side \in Sides :
            LET P == Placed(side) IN
            \A n \in 1..Len(P) :
                ( /\ PlainCase(side, P, n) /\ ~PartnerPlacedEarlier(P, n)
                  /\ ~KeyPlacedEarlier(P, n)
                  /\ P[n].sc.opp_key = NoKey => KeyPlacedOnce(P, n) )
                    => UsedAl(scale_aligns', side, P[n]) =
                         IF P[n].sc.opp_key = NoKey /\ P[n].part = STATOR_BOTTOM
                         THEN UPPER ELSE LOWER
      ]_vars

C7_Witness ==
    /\ pc = "done" /\ NoneGiven
    /\ \E side \in Sides :
        LET P == Placed(side) IN
        \E n, m \in 1..Len(P) :
            /\ ~IsRuler(P[n].sc) /\ ~FirstOfSlide(P[n]) /\ ~LastOfUpperPart(P[n])
            /\ ~PartnerPlacedEarlier(P, n) /\ KeyPlacedOnce(P, n)
            /\ P[n].sc.opp_key = NoKey /\ P[n].part = STATOR_BOTTOM
            /\ UsedAl(scale_aligns, side, P[n]) = UPPER
            /\ ~IsRuler(P[m].sc) /\ ~FirstOfSlide(P[m]) /\ ~LastOfUpperPart(P[m])
            /\ ~PartnerPlacedEarlier(P, m) /\ KeyPlacedOnce(P, m)
            /\ P[m].sc.opp_key # NoKey /\ P[m].part = STATOR_BOTTOM
            /\ UsedAl(scale_aligns, side, P[m]) = LOWER

(* C8 as stated: the first scale of the slide, when it is not a Ruler and  *)
(* not overridden, is aligned UPPER, whatever its partner and also when it *)
(* is the only scale of the slide.                                         *)
C8_FirstOfSlideIsUpper ==
    [][Inferred =>
        \A side \in Sides :
            LET P == Placed(side) IN
            \A n \in 1..Len(P) :
                (~Overridden(side, P[n].sc) /\ ~IsRuler(P[n].sc) /\ FirstOfSlide(P[n]))
                    => UsedAl(scale_aligns', side, P[n]) = UPPER
      ]_vars

(* C8, amended: the same for a first scale of the slide whose key was not  *)
(* placed earlier on the side, that is in the upper stator.                *)
C8_FirstOfSlideNotPlacedBeforeIsUpper ==
    [][Inferred =>
        \A side \in Sides :
            LET P == Placed(side) IN
            \A n \in 1..Len(P) :
                ( /\ ~Overridden(side, P[n].sc) /\ ~IsRuler(P[n].sc) /\ FirstOfSlide(P[n])
                  /\ ~KeyPlacedEarlier(P, n) )
                    => UsedAl(scale_aligns', side, P[n]) = UPPER
      ]_vars

C8_Witness ==
    /\ pc = "done" /\ NoneGiven
    /\ \E side \in Sides :
        LET P == Placed(side) IN
        \E n \in 1..Len(P) :
            /\ ~IsRuler(P[n].sc) /\ FirstOfSlide(P[n]) /\ P[n].last_i = 1
            /\ ~KeyPlacedEarlier(P, n) /\ n > 1
            /\ UsedAl(scale_aligns, side, P[n]) = UPPER

(* C9 as stated: the last scale of the upper stator or of the slide, when  *)
(* it is not a Ruler, not overridden and not the first scale of the slide, *)
(* is aligned LOWER, also when its partner was placed earlier on the side. *)
C9_LastOfUpperPartIsLower ==
    [][Inferred =>
        \A side \in Sides :
            LET P == Placed(side) IN
            \A n \in 1..Len(P) :
                ( /\ ~Overridden(side, P[n].sc) /\ ~IsRuler(P[n].sc)
                  /\ ~FirstOfSlide(P[n]) /\ LastOfUpperPart(P[n]) )
                    => UsedAl(scale_aligns', side, P[n]) = LOWER
      ]_vars

(* C9, amended: the same for a last scale whose key was not placed earlier *)
(* on the side.                                                            *)
C9_LastOfUpperPartNotPlacedBeforeIsLower ==
    [][Inferred =>
        \A side \in Sides :
            LET P == Placed(side) IN
            \A n \in 1..Len(P) :
                ( /\ ~Overridden(side, P[n].sc) /\ ~IsRuler(P[n].sc)
                  /\ ~FirstOfSlide(P[n]) /\ LastOfUpperPart(P[n])
                  /\ ~KeyPlacedEarlier(P, n) )
                    => UsedAl(scale_aligns', side, P[n]) = LOWER
      ]_vars

C9_Witness ==
    /\ pc = "done" /\ NoneGiven
    /\ \E side \in Sides :
        LET P == Placed(side) IN
        \E n \in 1..Len(P) :
            /\ ~IsRuler(P[n].sc) /\ ~FirstOfSlide(P[n]) /\ LastOfUpperPart(P[n])
            /\ ~KeyPlacedEarlier(P, n) /\ PartnerPlacedEarlier(P, n)
            /\ UsedAl(scale_aligns, side, P[n]) = LOWER

(* C10 as stated: a Ruler that is not overridden is aligned to the outer   *)
(* edge of its part wherever it stands in the segment: UPPER in the upper  *)
(* stator, LOWER in the lower stator.                                      *)
C10_RulerIsEdgeAligned ==
    [][Inferred =>
        \A side \in Sides :
            LET P == Placed(side) IN
            \A n \in 1..Len(P) :
                (~Overridden(side, P[n].sc) /\ IsRuler(P[n].sc)) =>
                    /\ P[n].part = STATOR_TOP => UsedAl(scale_aligns', side, P[n]) = UPPER
                    /\ P[n].part = STATOR_BOTTOM => UsedAl(scale_aligns', side, P[n]) = LOWER
      ]_vars

----------------------------------------------------------------------------
(* C11: alignment inference leaves every supplied override as it is: once  *)
(* the Layout is constructed, each (side, key) of the supplied             *)
(* align_overrides has the supplied alignment in the alignment map, and    *)
(* every placement of that key on that side is rendered with it, whatever  *)
(* its position in the layout.                                             *)
C11_OverrideIsKept ==
    [][Inferred =>
        \A side \in DOMAIN align_overrides.d :
            /\ \A key \in DOMAIN align_overrides.d[side] :
                /\ key \in DOMAIN scale_aligns'[side]
                /\ scale_aligns'[side][key] = align_overrides.d[side][key]
            /\ LET P == Placed(side) IN
               \A n \in 1..Len(P) :
                   Overridden(side, P[n].sc) =>
                       UsedAl(scale_aligns', side, P[n])
                           = align_overrides.d[side][P[n].sc.key]
      ]_vars

(* an overridden key stands where a rule of infer_aligns gives the other   *)
(* alignment, and keeps the supplied one                                   *)
C11_Witness ==
    /\ pc = "done" /\ ~NoneGiven
    /\ \E side \in DOMAIN align_overrides.d :
        LET P == Placed(side) IN
        \E n \in 1..Len(P) :
            /\ ~KeyPlacedEarlier(P, n)
            /\ \/ /\ FirstOfSlide(P[n]) /\ ~IsRuler(P[n].sc)
                  /\ scale_aligns[side][P[n].sc.key] = LOWER
               \/ /\ LastOfUpperPart(P[n]) /\ ~FirstOfSlide(P[n]) /\ ~IsRuler(P[n].sc)
                  /\ scale_aligns[side][P[n].sc.key] = UPPER

----------------------------------------------------------------------------
(* Graduation: t_s, Renderer.pat, Renderer.pat_auto, Ruler.pat.            *)
(*                                                                         *)
(* A float is a fixed-point number, an integer count of 10^-5: Fix stands  *)
(* for 1.0.  Values x and fractional positions are both counted so.  The   *)
(* smallest positive number of the grid stands for ε.                      *)

Fix == 10^5

(* line 819: ε = 1e-20 *)
EPS == 1

Inf == 2^30

Abs(x) == IF x < 0 THEN -x ELSE x
Min(a, b) == IF a <= b THEN a ELSE b
Max(a, b) == IF a >= b THEN a ELSE b

(* Python's int(): truncation toward zero of num / den, den > 0 *)
IntOf(num, den) == IF num >= 0 THEN num \div den ELSE -((-num) \div den)

(* lines 430-443 *)
TF_BY_MIN ==
    (500 :> <<10, 10, 5>>) @@ (250 :> <<10, 5, 5>>) @@ (100 :> <<10, 2, 5>>)
    @@ (50 :> <<2, 5, 5>>) @@ (25 :> <<1, 5, 5>>) @@ (20 :> <<2, 5, 2>>)
    @@ (10 :> <<2, 5, 1>>) @@ (5 :> <<1, 5, 1>>) @@ (2 :> <<1, 2, 1>>)
    @@ (1 :> <<1, 1, 1>>)

(* sorted(TF_BY_MIN.keys(), reverse=True) *)
TF_MIN == <<500, 250, 100, 50, 25, 20, 10, 5, 2, 1>>

TF_BIN == <<4, 4, 4>>

(* t_s with each step multiplied by its factor *)
t_s_multiplying(s1, f) ==
    LET s2 == IF f[1] = 1 THEN s1 ELSE s1 * f[1]
        s3 == IF f[2] = 1 THEN s2 ELSE s2 * f[2]
        s4 == IF f[3] = 1 THEN s3 ELSE s3 * f[3]
    IN  <<s1, s2, s3, s4>>

(* lines 446-451: tick iterative subdivision *)
t_s(s1, f) ==
    LET s2 == IF f[1] = 1 THEN s1 ELSE s1 \div f[1]
        s3 == IF f[2] = 1 THEN s2 ELSE s2 \div f[2]
        s4 == IF f[3] = 1 THEN s3 ELSE s3 \div f[3]
    IN  <<s1, s2, s3, s4>>

(* lines 842-843 *)
clamp(x, min_value, max_value) == Max(Min(x, max_value), min_value)

(* ScaleFNs, lines 881-907: the transform by name, is_increasing, and the  *)
(* domain min_x..max_x where one is declared; 1 + 1e-15 and 1 - 1e-16 are  *)
(* the grid values next to 1                                               *)
ScaleFNs ==
    [Base    |-> [fn |-> "Base",    is_increasing |-> TRUE,  min_x |-> EPS,  max_x |-> Inf],
     Square  |-> [fn |-> "Square",  is_increasing |-> TRUE,  min_x |-> -Inf, max_x |-> Inf],
     Cube    |-> [fn |-> "Cube",    is_increasing |-> TRUE,  min_x |-> -Inf, max_x |-> Inf],
     Inverse |-> [fn |-> "Inverse", is_increasing |-> FALSE, min_x |-> EPS,  max_x |-> Inf],
     InverseSquare |->
                 [fn |-> "InverseSquare", is_increasing |-> FALSE, min_x |-> EPS, max_x |-> Inf],
     SquareRoot |->
                 [fn |-> "SquareRoot", is_increasing |-> TRUE, min_x |-> EPS, max_x |-> Inf],
     CubeRoot |-> [fn |-> "CubeRoot", is_increasing |-> TRUE, min_x |-> EPS, max_x |-> Inf],
     Log10   |-> [fn |-> "Log10",   is_increasing |-> TRUE,  min_x |-> EPS,  max_x |-> Inf],
     Sin     |-> [fn |-> "Sin",     is_increasing |-> TRUE,  min_x |-> -Inf, max_x |-> Inf],
     CoSin   |-> [fn |-> "CoSin",   is_increasing |-> FALSE, min_x |-> -Inf, max_x |-> Inf],
     Tan     |-> [fn |-> "Tan",     is_increasing |-> TRUE,  min_x |-> -Inf, max_x |-> Inf],
     Theta   |-> [fn |-> "Theta",   is_increasing |-> TRUE,  min_x |-> -Inf, max_x |-> Inf],
     LogLog  |-> [fn |-> "LogLog",  is_increasing |-> TRUE,  min_x |-> Fix + 1, max_x |-> Inf],
     LogLogNeg |->
                 [fn |-> "LogLogNeg", is_increasing |-> FALSE, min_x |-> EPS, max_x |-> Fix - 1]]

(* lines 857-858 *)
clamp_input(scaler, x) == clamp(x, scaler.min_x, scaler.max_x)

(* math.log10 at x, both counted in 10^-5 and rounded to the nearest, for  *)
(* the arguments the graduated ranges and the round trips below need; at   *)
(* EPS it is log10(ε)                                                      *)
LOG10 ==
    (1 :> -2000000) @@ (15 :> -382391) @@ (16 :> -379588) @@
    (17 :> -376955) @@ (19 :> -372125) @@ (20 :> -369897) @@
    (25 :> -360206) @@ (30 :> -352288) @@ (35 :> -345593) @@
    (40 :> -339794) @@ (45 :> -334679) @@ (46 :> -333724) @@
    (48 :> -331876) @@ (49 :> -330980) @@ (50 :> -330103) @@
    (65 :> -318709) @@ (100 :> -300000) @@ (102 :> -299140) @@
    (104 :> -298297) @@ (110 :> -295861) @@ (115 :> -293930) @@
    (120 :> -292082) @@ (140 :> -285387) @@ (150 :> -282391) @@
    (200 :> -269897) @@ (300 :> -252288) @@ (400 :> -239794) @@
    (450 :> -234679) @@ (460 :> -233724) @@ (480 :> -231876) @@
    (490 :> -230980) @@ (496 :> -230452) @@ (498 :> -230277) @@
    (500 :> -230103) @@ (600 :> -222185) @@ (1100 :> -195861) @@
    (5000 :> -130103) @@ (10000 :> -100000) @@ (10536 :> -97732) @@
    (15000 :> -82391) @@ (20000 :> -69897) @@ (25000 :> -60206) @@
    (25200 :> -59860) @@ (25400 :> -59517) @@ (26000 :> -58503) @@
    (27000 :> -56864) @@ (29000 :> -53760) @@ (30000 :> -52288) @@
    (30020 :> -52259) @@ (30040 :> -52230) @@ (30100 :> -52143) @@
    (30200 :> -51999) @@ (30400 :> -51713) @@ (30500 :> -51570) @@
    (31000 :> -50864) @@ (32000 :> -49485) @@ (33000 :> -48149) @@
    (34000 :> -46852) @@ (34500 :> -46218) @@ (34600 :> -46092) @@
    (34800 :> -45842) @@ (34900 :> -45717) @@ (34960 :> -45643) @@
    (34980 :> -45618) @@ (35000 :> -45593) @@ (35200 :> -45346) @@
    (35400 :> -45100) @@ (36000 :> -44370) @@ (36200 :> -44129) @@
    (36400 :> -43890) @@ (37000 :> -43180) @@ (38000 :> -42022) @@
    (39000 :> -40894) @@ (39500 :> -40340) @@ (39600 :> -40230) @@
    (39800 :> -40012) @@ (39900 :> -39903) @@ (39960 :> -39837) @@
    (39980 :> -39816) @@ (40000 :> -39794) @@ (40200 :> -39577) @@
    (40400 :> -39362) @@ (40547 :> -39204) @@ (41000 :> -38722) @@
    (42000 :> -37675) @@ (43000 :> -36653) @@ (44000 :> -35655) @@
    (45000 :> -34679) @@ (46000 :> -33724) @@ (50000 :> -30103) @@
    (55000 :> -25964) @@ (56000 :> -25181) @@ (57000 :> -24413) @@
    (57200 :> -24260) @@ (57400 :> -24109) @@ (58000 :> -23657) @@
    (59000 :> -22915) @@ (60000 :> -22185) @@ (61000 :> -21467) @@
    (62000 :> -20761) @@ (64000 :> -19382) @@ (65000 :> -18709) @@
    (67000 :> -17393) @@ (69315 :> -15917) @@ (75000 :> -12494) @@
    (77000 :> -11351) @@ (80000 :> -9691) @@ (85000 :> -7058) @@
    (86000 :> -6550) @@ (90000 :> -4576) @@ (95000 :> -2228) @@
    (96000 :> -1773) @@ (98000 :> -877) @@ (99000 :> -436) @@
    (99600 :> -174) @@ (99800 :> -87) @@ (99995 :> -2) @@ (100000 :> 0) @@
    (100005 :> 2) @@ (100200 :> 87) @@ (100205 :> 89) @@ (100400 :> 173) @@
    (100405 :> 176) @@ (101000 :> 432) @@ (101005 :> 434) @@
    (102000 :> 860) @@ (102005 :> 862) @@ (104000 :> 1703) @@
    (104005 :> 1705) @@ (105000 :> 2119) @@ (105005 :> 2121) @@
    (107000 :> 2938) @@ (110000 :> 4139) @@ (110005 :> 4141) @@
    (120000 :> 7918) @@ (120005 :> 7920) @@ (125000 :> 9691) @@
    (130000 :> 11394) @@ (135000 :> 13033) @@ (136000 :> 13354) @@
    (140000 :> 14613) @@ (150000 :> 17609) @@ (150005 :> 17611) @@
    (157000 :> 19590) @@ (160944 :> 20667) @@ (173650 :> 23967) @@
    (176330 :> 24633) @@ (180000 :> 25527) @@ (190000 :> 27875) @@
    (195000 :> 29003) @@ (196000 :> 29226) @@ (198000 :> 29667) @@
    (199000 :> 29885) @@ (199600 :> 30016) @@ (199800 :> 30060) @@
    (200000 :> 30103) @@ (200005 :> 30104) @@ (200200 :> 30146) @@
    (200400 :> 30190) @@ (201000 :> 30320) @@ (202000 :> 30535) @@
    (204000 :> 30963) @@ (205000 :> 31175) @@ (210000 :> 32222) @@
    (220000 :> 34242) @@ (230000 :> 36173) @@ (230259 :> 36222) @@
    (250000 :> 39794) @@ (259998 :> 41497) @@ (260000 :> 41497) @@
    (280000 :> 44716) @@ (300000 :> 47712) @@ (309998 :> 49136) @@
    (310000 :> 49136) @@ (320000 :> 50515) @@ (325000 :> 51188) @@
    (326000 :> 51322) @@ (328000 :> 51587) @@ (329000 :> 51720) @@
    (329600 :> 51799) @@ (329800 :> 51825) @@ (330000 :> 51851) @@
    (339998 :> 53148) @@ (340000 :> 53148) @@ (349998 :> 54407) @@
    (350000 :> 54407) @@ (354998 :> 55023) @@ (355000 :> 55023) @@
    (355998 :> 55145) @@ (356000 :> 55145) @@ (357998 :> 55388) @@
    (358000 :> 55388) @@ (358998 :> 55509) @@ (359000 :> 55509) @@
    (359598 :> 55582) @@ (359600 :> 55582) @@ (359798 :> 55606) @@
    (359800 :> 55606) @@ (359998 :> 55630) @@ (360000 :> 55630) @@
    (380000 :> 57978) @@ (390000 :> 59106) @@ (395000 :> 59660) @@
    (396000 :> 59770) @@ (398000 :> 59988) @@ (399000 :> 60097) @@
    (399600 :> 60163) @@ (399800 :> 60184) @@ (400000 :> 60206) @@
    (450000 :> 65321) @@ (460517 :> 66325) @@ (480000 :> 68124) @@
    (490000 :> 69020) @@ (495000 :> 69461) @@ (496000 :> 69548) @@
    (498000 :> 69723) @@ (499000 :> 69810) @@ (499600 :> 69862) @@
    (499800 :> 69880) @@ (500000 :> 69897) @@ (577350 :> 76144) @@
    (707110 :> 84949) @@ (866030 :> 93753) @@ (900000 :> 95424) @@
    (950000 :> 97772) @@ (980000 :> 99123) @@ (984810 :> 99335) @@
    (990000 :> 99564) @@ (995000 :> 99782) @@ (996000 :> 99826) @@
    (998000 :> 99913) @@ (999000 :> 99957) @@ (999600 :> 99983) @@
    (999800 :> 99991) @@ (1000000 :> 100000) @@ (1002000 :> 100087) @@
    (1004000 :> 100173) @@ (1010000 :> 100432) @@ (1020000 :> 100860) @@
    (1040000 :> 101703) @@ (1050000 :> 102119) @@ (1100000 :> 104139) @@
    (1200000 :> 107918) @@ (1500000 :> 117609) @@ (1732050 :> 123856) @@
    (2000000 :> 130103) @@ (4000000 :> 160206) @@ (5671280 :> 175368) @@
    (9000000 :> 195424) @@ (9500000 :> 197772) @@ (9800000 :> 199123) @@
    (9900000 :> 199564) @@ (9950000 :> 199782) @@ (9960000 :> 199826) @@
    (9980000 :> 199913) @@ (9990000 :> 199957) @@ (9996000 :> 199983) @@
    (9998000 :> 199991) @@ (10000000 :> 200000)

(* math.pow(10, p), math.log (natural) and math.exp on the same grid *)
POW10 ==
    (-130104 :> 5000) @@ (-100000 :> 10000) @@ (-69898 :> 20000) @@
    (-44370 :> 36000) @@ (-39204 :> 40547) @@ (-36222 :> 43429) @@
    (-30105 :> 49998) @@ (-30104 :> 49999) @@ (-30103 :> 50000) @@
    (-20667 :> 62134) @@ (-15917 :> 69315) @@ (0 :> 100000) @@
    (15917 :> 144268) @@ (20667 :> 160942) @@ (24633 :> 176332) @@
    (30102 :> 199995) @@ (30103 :> 200000) @@ (36222 :> 230261) @@
    (55630 :> 360000) @@ (66325 :> 460522) @@ (69896 :> 499988) @@
    (69897 :> 500000) @@ (76144 :> 577351) @@ (97732 :> 949118) @@
    (99999 :> 999977) @@ (100000 :> 1000000) @@ (123856 :> 1732048) @@
    (175368 :> 5671266) @@ (199998 :> 9999539) @@ (200000 :> 10000000)

LN ==
    (10000 :> -230259) @@ (20000 :> -160944) @@ (50000 :> -69315) @@
    (90000 :> -10536) @@ (150000 :> 40547) @@ (200000 :> 69315) @@
    (500000 :> 160944) @@ (1000000 :> 230259) @@ (10000000 :> 460517)

EXP ==
    (40547 :> 150001) @@ (43429 :> 154387) @@ (62134 :> 186142) @@
    (69315 :> 200001) @@ (144268 :> 423202) @@ (160942 :> 499991) @@
    (230261 :> 1000025) @@ (460522 :> 10000498) @@ (949118 :> 1324241216)

(* math.sin, math.cos and math.tan of math.radians(x), x in degrees *)
SinTo15 ==
    (570000 :> 9932) @@ (580000 :> 10106) @@ (590000 :> 10279) @@
    (600000 :> 10453) @@ (610000 :> 10626) @@ (620000 :> 10800) @@
    (630000 :> 10973) @@ (640000 :> 11147) @@ (650000 :> 11320) @@
    (660000 :> 11494) @@ (670000 :> 11667) @@ (680000 :> 11840) @@
    (690000 :> 12014) @@ (700000 :> 12187) @@ (710000 :> 12360) @@
    (720000 :> 12533) @@ (730000 :> 12706) @@ (740000 :> 12880) @@
    (750000 :> 13053) @@ (760000 :> 13226) @@ (770000 :> 13399) @@
    (780000 :> 13572) @@ (790000 :> 13744) @@ (800000 :> 13917) @@
    (810000 :> 14090) @@ (820000 :> 14263) @@ (830000 :> 14436) @@
    (840000 :> 14608) @@ (850000 :> 14781) @@ (860000 :> 14954) @@
    (870000 :> 15126) @@ (880000 :> 15299) @@ (890000 :> 15471) @@
    (900000 :> 15643) @@ (910000 :> 15816) @@ (920000 :> 15988) @@
    (930000 :> 16160) @@ (940000 :> 16333) @@ (950000 :> 16505) @@
    (960000 :> 16677) @@ (970000 :> 16849) @@ (980000 :> 17021) @@
    (990000 :> 17193) @@ (1000000 :> 17365) @@ (1010000 :> 17537) @@
    (1020000 :> 17708) @@ (1030000 :> 17880) @@ (1040000 :> 18052) @@
    (1050000 :> 18224) @@ (1060000 :> 18395) @@ (1070000 :> 18567) @@
    (1080000 :> 18738) @@ (1090000 :> 18910) @@ (1100000 :> 19081) @@
    (1110000 :> 19252) @@ (1120000 :> 19423) @@ (1130000 :> 19595) @@
    (1140000 :> 19766) @@ (1150000 :> 19937) @@ (1160000 :> 20108) @@
    (1170000 :> 20279) @@ (1180000 :> 20450) @@ (1190000 :> 20620) @@
    (1200000 :> 20791) @@ (1210000 :> 20962) @@ (1220000 :> 21132) @@
    (1230000 :> 21303) @@ (1240000 :> 21474) @@ (1250000 :> 21644) @@
    (1260000 :> 21814) @@ (1270000 :> 21985) @@ (1280000 :> 22155) @@
    (1290000 :> 22325) @@ (1300000 :> 22495) @@ (1310000 :> 22665) @@
    (1320000 :> 22835) @@ (1330000 :> 23005) @@ (1340000 :> 23175) @@
    (1350000 :> 23345) @@ (1360000 :> 23514) @@ (1370000 :> 23684) @@
    (1380000 :> 23853) @@ (1390000 :> 24023) @@ (1400000 :> 24192) @@
    (1410000 :> 24362) @@ (1420000 :> 24531) @@ (1430000 :> 24700) @@
    (1440000 :> 24869) @@ (1450000 :> 25038) @@ (1460000 :> 25207) @@
    (1470000 :> 25376) @@ (1480000 :> 25545) @@ (1490000 :> 25713) @@
    (1500000 :> 25882)

SinTo30 ==
    (1510000 :> 26050) @@ (1520000 :> 26219) @@ (1530000 :> 26387) @@
    (1540000 :> 26556) @@ (1550000 :> 26724) @@ (1560000 :> 26892) @@
    (1570000 :> 27060) @@ (1580000 :> 27228) @@ (1590000 :> 27396) @@
    (1600000 :> 27564) @@ (1610000 :> 27731) @@ (1620000 :> 27899) @@
    (1630000 :> 28067) @@ (1640000 :> 28234) @@ (1650000 :> 28402) @@
    (1660000 :> 28569) @@ (1670000 :> 28736) @@ (1680000 :> 28903) @@
    (1690000 :> 29070) @@ (1700000 :> 29237) @@ (1710000 :> 29404) @@
    (1720000 :> 29571) @@ (1730000 :> 29737) @@ (1740000 :> 29904) @@
    (1750000 :> 30071) @@ (1760000 :> 30237) @@ (1770000 :> 30403) @@
    (1780000 :> 30570) @@ (1790000 :> 30736) @@ (1800000 :> 30902) @@
    (1810000 :> 31068) @@ (1820000 :> 31233) @@ (1830000 :> 31399) @@
    (1840000 :> 31565) @@ (1850000 :> 31730) @@ (1860000 :> 31896) @@
    (1870000 :> 32061) @@ (1880000 :> 32227) @@ (1890000 :> 32392) @@
    (1900000 :> 32557) @@ (1910000 :> 32722) @@ (1920000 :> 32887) @@
    (1930000 :> 33051) @@ (1940000 :> 33216) @@ (1950000 :> 33381) @@
    (1960000 :> 33545) @@ (1970000 :> 33710) @@ (1980000 :> 33874) @@
    (1990000 :> 34038) @@ (2000000 :> 34202) @@ (2020000 :> 34530) @@
    (2040000 :> 34857) @@ (2060000 :> 35184) @@ (2080000 :> 35511) @@
    (2100000 :> 35837) @@ (2120000 :> 36162) @@ (2140000 :> 36488) @@
    (2160000 :> 36812) @@ (2180000 :> 37137) @@ (2200000 :> 37461) @@
    (2220000 :> 37784) @@ (2240000 :> 38107) @@ (2260000 :> 38430) @@
    (2280000 :> 38752) @@ (2300000 :> 39073) @@ (2320000 :> 39394) @@
    (2340000 :> 39715) @@ (2360000 :> 40035) @@ (2380000 :> 40355) @@
    (2400000 :> 40674) @@ (2420000 :> 40992) @@ (2440000 :> 41310) @@
    (2460000 :> 41628) @@ (2480000 :> 41945) @@ (2500000 :> 42262) @@
    (2520000 :> 42578) @@ (2540000 :> 42894) @@ (2560000 :> 43209) @@
    (2580000 :> 43523) @@ (2600000 :> 43837) @@ (2620000 :> 44151) @@
    (2640000 :> 44464) @@ (2660000 :> 44776) @@ (2680000 :> 45088) @@
    (2700000 :> 45399) @@ (2720000 :> 45710) @@ (2740000 :> 46020) @@
    (2760000 :> 46330) @@ (2780000 :> 46639) @@ (2800000 :> 46947) @@
    (2820000 :> 47255) @@ (2840000 :> 47562) @@ (2860000 :> 47869) @@
    (2880000 :> 48175) @@ (2900000 :> 48481) @@ (2920000 :> 48786) @@
    (2940000 :> 49090) @@ (2960000 :> 49394) @@ (2980000 :> 49697) @@
    (3000000 :> 50000)

SinTo90 ==
    (3050000 :> 50754) @@ (3100000 :> 51504) @@ (3150000 :> 52250) @@
    (3200000 :> 52992) @@ (3250000 :> 53730) @@ (3300000 :> 54464) @@
    (3350000 :> 55194) @@ (3400000 :> 55919) @@ (3450000 :> 56641) @@
    (3500000 :> 57358) @@ (3550000 :> 58070) @@ (3600000 :> 58779) @@
    (3650000 :> 59482) @@ (3700000 :> 60182) @@ (3750000 :> 60876) @@
    (3800000 :> 61566) @@ (3850000 :> 62251) @@ (3900000 :> 62932) @@
    (3950000 :> 63608) @@ (4000000 :> 64279) @@ (4050000 :> 64945) @@
    (4100000 :> 65606) @@ (4150000 :> 66262) @@ (4200000 :> 66913) @@
    (4250000 :> 67559) @@ (4300000 :> 68200) @@ (4350000 :> 68835) @@
    (4400000 :> 69466) @@ (4450000 :> 70091) @@ (4500000 :> 70711) @@
    (4550000 :> 71325) @@ (4600000 :> 71934) @@ (4650000 :> 72537) @@
    (4700000 :> 73135) @@ (4750000 :> 73728) @@ (4800000 :> 74314) @@
    (4850000 :> 74896) @@ (4900000 :> 75471) @@ (4950000 :> 76041) @@
    (5000000 :> 76604) @@ (5050000 :> 77162) @@ (5100000 :> 77715) @@
    (5150000 :> 78261) @@ (5200000 :> 78801) @@ (5250000 :> 79335) @@
    (5300000 :> 79864) @@ (5350000 :> 80386) @@ (5400000 :> 80902) @@
    (5450000 :> 81412) @@ (5500000 :> 81915) @@ (5550000 :> 82413) @@
    (5600000 :> 82904) @@ (5650000 :> 83389) @@ (5700000 :> 83867) @@
    (5750000 :> 84339) @@ (5800000 :> 84805) @@ (5850000 :> 85264) @@
    (5900000 :> 85717) @@ (5950000 :> 86163) @@ (6000000 :> 86603) @@
    (6100000 :> 87462) @@ (6200000 :> 88295) @@ (6300000 :> 89101) @@
    (6400000 :> 89879) @@ (6500000 :> 90631) @@ (6600000 :> 91355) @@
    (6700000 :> 92050) @@ (6800000 :> 92718) @@ (6900000 :> 93358) @@
    (7000000 :> 93969) @@ (7100000 :> 94552) @@ (7200000 :> 95106) @@
    (7300000 :> 95630) @@ (7400000 :> 96126) @@ (7500000 :> 96593) @@
    (7600000 :> 97030) @@ (7700000 :> 97437) @@ (7800000 :> 97815) @@
    (7900000 :> 98163) @@ (8000000 :> 98481) @@ (8500000 :> 99619) @@
    (9000000 :> 100000)

SIN == SinTo15 @@ SinTo30 @@ SinTo90

COS ==
    (1000000 :> 98481) @@ (3000000 :> 86603) @@ (4500000 :> 70711) @@
    (6000000 :> 50000) @@ (8000000 :> 17365)

TanTo55 ==
    (1000000 :> 17633) @@ (3000000 :> 57735) @@ (4500000 :> 100000) @@
    (4510000 :> 100350) @@ (4520000 :> 100701) @@ (4530000 :> 101053) @@
    (4540000 :> 101406) @@ (4550000 :> 101761) @@ (4560000 :> 102117) @@
    (4570000 :> 102474) @@ (4580000 :> 102832) @@ (4590000 :> 103192) @@
    (4600000 :> 103553) @@ (4610000 :> 103915) @@ (4620000 :> 104279) @@
    (4630000 :> 104644) @@ (4640000 :> 105010) @@ (4650000 :> 105378) @@
    (4660000 :> 105747) @@ (4670000 :> 106117) @@ (4680000 :> 106489) @@
    (4690000 :> 106862) @@ (4700000 :> 107237) @@ (4710000 :> 107613) @@
    (4720000 :> 107990) @@ (4730000 :> 108369) @@ (4740000 :> 108749) @@
    (4750000 :> 109131) @@ (4760000 :> 109514) @@ (4770000 :> 109899) @@
    (4780000 :> 110285) @@ (4790000 :> 110672) @@ (4800000 :> 111061) @@
    (4810000 :> 111452) @@ (4820000 :> 111844) @@ (4830000 :> 112238) @@
    (4840000 :> 112633) @@ (4850000 :> 113029) @@ (4860000 :> 113428) @@
    (4870000 :> 113828) @@ (4880000 :> 114229) @@ (4890000 :> 114632) @@
    (4900000 :> 115037) @@ (4910000 :> 115443) @@ (4920000 :> 115851) @@
    (4930000 :> 116261) @@ (4940000 :> 116672) @@ (4950000 :> 117085) @@
    (4960000 :> 117500) @@ (4970000 :> 117916) @@ (4980000 :> 118334) @@
    (4990000 :> 118754) @@ (5000000 :> 119175) @@ (5010000 :> 119599) @@
    (5020000 :> 120024) @@ (5030000 :> 120451) @@ (5040000 :> 120879) @@
    (5050000 :> 121310) @@ (5060000 :> 121742) @@ (5070000 :> 122176) @@
    (5080000 :> 122612) @@ (5090000 :> 123050) @@ (5100000 :> 123490) @@
    (5110000 :> 123931) @@ (5120000 :> 124375) @@ (5130000 :> 124820) @@
    (5140000 :> 125268) @@ (5150000 :> 125717) @@ (5160000 :> 126169) @@
    (5170000 :> 126622) @@ (5180000 :> 127077) @@ (5190000 :> 127535) @@
    (5200000 :> 127994) @@ (5210000 :> 128456) @@ (5220000 :> 128919) @@
    (5230000 :> 129385) @@ (5240000 :> 129853) @@ (5250000 :> 130323) @@
    (5260000 :> 130795) @@ (5270000 :> 131269) @@ (5280000 :> 131745) @@
    (5290000 :> 132224) @@ (5300000 :> 132704) @@ (5310000 :> 133187) @@
    (5320000 :> 133673) @@ (5330000 :> 134160) @@ (5340000 :> 134650) @@
    (5350000 :> 135142) @@ (5360000 :> 135637) @@ (5370000 :> 136134) @@
    (5380000 :> 136633) @@ (5390000 :> 137134) @@ (5400000 :> 137638) @@
    (5410000 :> 138145) @@ (5420000 :> 138653) @@ (5430000 :> 139165) @@
    (5440000 :> 139679) @@ (5450000 :> 140195) @@ (5460000 :> 140714) @@
    (5470000 :> 141235) @@ (5480000 :> 141759) @@ (5490000 :> 142286) @@
    (5500000 :> 142815)

TanTo65 ==
    (5510000 :> 143347) @@ (5520000 :> 143881) @@ (5530000 :> 144418) @@
    (5540000 :> 144958) @@ (5550000 :> 145501) @@ (5560000 :> 146046) @@
    (5570000 :> 146595) @@ (5580000 :> 147146) @@ (5590000 :> 147699) @@
    (5600000 :> 148256) @@ (5610000 :> 148816) @@ (5620000 :> 149378) @@
    (5630000 :> 149944) @@ (5640000 :> 150512) @@ (5650000 :> 151084) @@
    (5660000 :> 151658) @@ (5670000 :> 152235) @@ (5680000 :> 152816) @@
    (5690000 :> 153400) @@ (5700000 :> 153986) @@ (5710000 :> 154576) @@
    (5720000 :> 155170) @@ (5730000 :> 155766) @@ (5740000 :> 156366) @@
    (5750000 :> 156969) @@ (5760000 :> 157575) @@ (5770000 :> 158184) @@
    (5780000 :> 158797) @@ (5790000 :> 159414) @@ (5800000 :> 160033) @@
    (5810000 :> 160657) @@ (5820000 :> 161283) @@ (5830000 :> 161914) @@
    (5840000 :> 162548) @@ (5850000 :> 163185) @@ (5860000 :> 163826) @@
    (5870000 :> 164471) @@ (5880000 :> 165120) @@ (5890000 :> 165772) @@
    (5900000 :> 166428) @@ (5910000 :> 167088) @@ (5920000 :> 167752) @@
    (5930000 :> 168419) @@ (5940000 :> 169091) @@ (5950000 :> 169766) @@
    (5960000 :> 170446) @@ (5970000 :> 171129) @@ (5980000 :> 171817) @@
    (5990000 :> 172509) @@ (6000000 :> 173205) @@ (6010000 :> 173905) @@
    (6020000 :> 174610) @@ (6030000 :> 175319) @@ (6040000 :> 176032) @@
    (6050000 :> 176749) @@ (6060000 :> 177471) @@ (6070000 :> 178198) @@
    (6080000 :> 178929) @@ (6090000 :> 179665) @@ (6100000 :> 180405) @@
    (6110000 :> 181150) @@ (6120000 :> 181899) @@ (6130000 :> 182654) @@
    (6140000 :> 183413) @@ (6150000 :> 184177) @@ (6160000 :> 184946) @@
    (6170000 :> 185720) @@ (6180000 :> 186499) @@ (6190000 :> 187283) @@
    (6200000 :> 188073) @@ (6210000 :> 188867) @@ (6220000 :> 189667) @@
    (6230000 :> 190472) @@ (6240000 :> 191282) @@ (6250000 :> 192098) @@
    (6260000 :> 192920) @@ (6270000 :> 193746) @@ (6280000 :> 194579) @@
    (6290000 :> 195417) @@ (6300000 :> 196261) @@ (6310000 :> 197111) @@
    (6320000 :> 197966) @@ (6330000 :> 198828) @@ (6340000 :> 199695) @@
    (6350000 :> 200569) @@ (6360000 :> 201449) @@ (6370000 :> 202335) @@
    (6380000 :> 203227) @@ (6390000 :> 204125) @@ (6400000 :> 205030) @@
    (6410000 :> 205942) @@ (6420000 :> 206860) @@ (6430000 :> 207785) @@
    (6440000 :> 208716) @@ (6450000 :> 209654) @@ (6460000 :> 210600) @@
    (6470000 :> 211552) @@ (6480000 :> 212511) @@ (6490000 :> 213477) @@
    (6500000 :> 214451)

TanTo75 ==
    (6510000 :> 215432) @@ (6520000 :> 216420) @@ (6530000 :> 217416) @@
    (6540000 :> 218419) @@ (6550000 :> 219430) @@ (6560000 :> 220449) @@
    (6570000 :> 221475) @@ (6580000 :> 222510) @@ (6590000 :> 223553) @@
    (6600000 :> 224604) @@ (6610000 :> 225663) @@ (6620000 :> 226730) @@
    (6630000 :> 227806) @@ (6640000 :> 228891) @@ (6650000 :> 229984) @@
    (6660000 :> 231086) @@ (6670000 :> 232197) @@ (6680000 :> 233317) @@
    (6690000 :> 234447) @@ (6700000 :> 235585) @@ (6710000 :> 236733) @@
    (6720000 :> 237891) @@ (6730000 :> 239058) @@ (6740000 :> 240235) @@
    (6750000 :> 241421) @@ (6760000 :> 242618) @@ (6770000 :> 243825) @@
    (6780000 :> 245043) @@ (6790000 :> 246270) @@ (6800000 :> 247509) @@
    (6810000 :> 248758) @@ (6820000 :> 250018) @@ (6830000 :> 251289) @@
    (6840000 :> 252571) @@ (6850000 :> 253865) @@ (6860000 :> 255170) @@
    (6870000 :> 256487) @@ (6880000 :> 257815) @@ (6890000 :> 259156) @@
    (6900000 :> 260509) @@ (6910000 :> 261874) @@ (6920000 :> 263252) @@
    (6930000 :> 264642) @@ (6940000 :> 266046) @@ (6950000 :> 267462) @@
    (6960000 :> 268892) @@ (6970000 :> 270335) @@ (6980000 :> 271792) @@
    (6990000 :> 273263) @@ (7000000 :> 274748) @@ (7010000 :> 276247) @@
    (7020000 :> 277761) @@ (7030000 :> 279289) @@ (7040000 :> 280833) @@
    (7050000 :> 282391) @@ (7060000 :> 283965) @@ (7070000 :> 285555) @@
    (7080000 :> 287161) @@ (7090000 :> 288783) @@ (7100000 :> 290421) @@
    (7110000 :> 292076) @@ (7120000 :> 293748) @@ (7130000 :> 295437) @@
    (7140000 :> 297144) @@ (7150000 :> 298868) @@ (7160000 :> 300611) @@
    (7170000 :> 302372) @@ (7180000 :> 304152) @@ (7190000 :> 305950) @@
    (7200000 :> 307768) @@ (7210000 :> 309606) @@ (7220000 :> 311464) @@
    (7230000 :> 313341) @@ (7240000 :> 315240) @@ (7250000 :> 317159) @@
    (7260000 :> 319100) @@ (7270000 :> 321063) @@ (7280000 :> 323048) @@
    (7290000 :> 325055) @@ (7300000 :> 327085) @@ (7310000 :> 329139) @@
    (7320000 :> 331216) @@ (7330000 :> 333317) @@ (7340000 :> 335443) @@
    (7350000 :> 337594) @@ (7360000 :> 339771) @@ (7370000 :> 341973) @@
    (7380000 :> 344202) @@ (7390000 :> 346458) @@ (7400000 :> 348741) @@
    (7410000 :> 351053) @@ (7420000 :> 353393) @@ (7430000 :> 355761) @@
    (7440000 :> 358160) @@ (7450000 :> 360588) @@ (7460000 :> 363048) @@
    (7470000 :> 365538) @@ (7480000 :> 368061) @@ (7490000 :> 370616) @@
    (7500000 :> 373205)

TanTo80 ==
    (7505000 :> 374512) @@ (7510000 :> 375828) @@ (7515000 :> 377152) @@
    (7520000 :> 378485) @@ (7525000 :> 379827) @@ (7530000 :> 381177) @@
    (7535000 :> 382537) @@ (7540000 :> 383906) @@ (7545000 :> 385284) @@
    (7550000 :> 386671) @@ (7555000 :> 388068) @@ (7560000 :> 389474) @@
    (7565000 :> 390890) @@ (7570000 :> 392316) @@ (7575000 :> 393751) @@
    (7580000 :> 395196) @@ (7585000 :> 396651) @@ (7590000 :> 398117) @@
    (7595000 :> 399592) @@ (7600000 :> 401078) @@ (7605000 :> 402574) @@
    (7610000 :> 404081) @@ (7615000 :> 405599) @@ (7620000 :> 407127) @@
    (7625000 :> 408666) @@ (7630000 :> 410216) @@ (7635000 :> 411778) @@
    (7640000 :> 413350) @@ (7645000 :> 414934) @@ (7650000 :> 416530) @@
    (7655000 :> 418137) @@ (7660000 :> 419756) @@ (7665000 :> 421387) @@
    (7670000 :> 423030) @@ (7675000 :> 424685) @@ (7680000 :> 426352) @@
    (7685000 :> 428032) @@ (7690000 :> 429724) @@ (7695000 :> 431430) @@
    (7700000 :> 433148) @@ (7705000 :> 434879) @@ (7710000 :> 436623) @@
    (7715000 :> 438381) @@ (7720000 :> 440152) @@ (7725000 :> 441936) @@
    (7730000 :> 443735) @@ (7735000 :> 445548) @@ (7740000 :> 447374) @@
    (7745000 :> 449215) @@ (7750000 :> 451071) @@ (7755000 :> 452941) @@
    (7760000 :> 454826) @@ (7765000 :> 456726) @@ (7770000 :> 458641) @@
    (7775000 :> 460572) @@ (7780000 :> 462518) @@ (7785000 :> 464480) @@
    (7790000 :> 466458) @@ (7795000 :> 468452) @@ (7800000 :> 470463) @@
    (7805000 :> 472490) @@ (7810000 :> 474534) @@ (7815000 :> 476595) @@
    (7820000 :> 478673) @@ (7825000 :> 480769) @@ (7830000 :> 482882) @@
    (7835000 :> 485013) @@ (7840000 :> 487162) @@ (7845000 :> 489330) @@
    (7850000 :> 491516) @@ (7855000 :> 493721) @@ (7860000 :> 495945) @@
    (7865000 :> 498188) @@ (7870000 :> 500451) @@ (7875000 :> 502734) @@
    (7880000 :> 505037) @@ (7885000 :> 507360) @@ (7890000 :> 509704) @@
    (7895000 :> 512069) @@ (7900000 :> 514455) @@ (7905000 :> 516863) @@
    (7910000 :> 519293) @@ (7915000 :> 521744) @@ (7920000 :> 524218) @@
    (7925000 :> 526715) @@ (7930000 :> 529235) @@ (7935000 :> 531778) @@
    (7940000 :> 534345) @@ (7945000 :> 536936) @@ (7950000 :> 539552) @@
    (7955000 :> 542192) @@ (7960000 :> 544857) @@ (7965000 :> 547548) @@
    (7970000 :> 550264) @@ (7975000 :> 553007) @@ (7980000 :> 555777) @@
    (7985000 :> 558573) @@ (7990000 :> 561397) @@ (7995000 :> 564248) @@
    (8000000 :> 567128)

TanTo85 ==
    (8005000 :> 570037) @@ (8010000 :> 572974) @@ (8015000 :> 575941) @@
    (8020000 :> 578938) @@ (8025000 :> 581966) @@ (8030000 :> 585024) @@
    (8035000 :> 588114) @@ (8040000 :> 591236) @@ (8045000 :> 594390) @@
    (8050000 :> 597576) @@ (8055000 :> 600797) @@ (8060000 :> 604051) @@
    (8065000 :> 607340) @@ (8070000 :> 610664) @@ (8075000 :> 614023) @@
    (8080000 :> 617419) @@ (8085000 :> 620851) @@ (8090000 :> 624321) @@
    (8095000 :> 627829) @@ (8100000 :> 631375) @@ (8105000 :> 634961) @@
    (8110000 :> 638587) @@ (8115000 :> 642253) @@ (8120000 :> 645961) @@
    (8125000 :> 649710) @@ (8130000 :> 653503) @@ (8135000 :> 657339) @@
    (8140000 :> 661219) @@ (8145000 :> 665144) @@ (8150000 :> 669116) @@
    (8155000 :> 673133) @@ (8160000 :> 677199) @@ (8165000 :> 681312) @@
    (8170000 :> 685475) @@ (8175000 :> 689688) @@ (8180000 :> 693952) @@
    (8185000 :> 698268) @@ (8190000 :> 702637) @@ (8195000 :> 707059) @@
    (8200000 :> 711537) @@ (8205000 :> 716071) @@ (8210000 :> 720661) @@
    (8215000 :> 725310) @@ (8220000 :> 730018) @@ (8225000 :> 734786) @@
    (8230000 :> 739616) @@ (8235000 :> 744509) @@ (8240000 :> 749465) @@
    (8245000 :> 754487) @@ (8250000 :> 759575) @@ (8255000 :> 764732) @@
    (8260000 :> 769957) @@ (8265000 :> 775254) @@ (8270000 :> 780622) @@
    (8275000 :> 786064) @@ (8280000 :> 791582) @@ (8285000 :> 797176) @@
    (8290000 :> 802848) @@ (8295000 :> 808600) @@ (8300000 :> 814435) @@
    (8305000 :> 820352) @@ (8310000 :> 826355) @@ (8315000 :> 832446) @@
    (8320000 :> 838625) @@ (8325000 :> 844896) @@ (8330000 :> 851259) @@
    (8335000 :> 857718) @@ (8340000 :> 864275) @@ (8345000 :> 870931) @@
    (8350000 :> 877689) @@ (8355000 :> 884551) @@ (8360000 :> 891520) @@
    (8365000 :> 898598) @@ (8370000 :> 905789) @@ (8375000 :> 913093) @@
    (8380000 :> 920516) @@ (8385000 :> 928058) @@ (8390000 :> 935724) @@
    (8395000 :> 943515) @@ (8400000 :> 951436) @@ (8405000 :> 959490) @@
    (8410000 :> 967680) @@ (8415000 :> 976009) @@ (8420000 :> 984482) @@
    (8425000 :> 993101)

TAN == TanTo55 @@ TanTo65 @@ TanTo75 @@ TanTo80 @@ TanTo85

(* math.asin, math.acos and math.atan, in radians *)
ASIN ==
    (23967 :> 24203) @@ (69897 :> 77396) @@ (84949 :> 101502) @@
    (93753 :> 121546) @@ (99335 :> 145541)

ACOS ==
    (23967 :> 132877) @@ (69897 :> 79684) @@ (84949 :> 55578) @@
    (93753 :> 35533) @@ (99335 :> 11539)

ATAN ==
    (176332 :> 105491) @@ (577351 :> 139929) @@ (1000000 :> 147113) @@
    (1732048 :> 151313) @@ (5671266 :> 155317)

(* lines 823-824 *)
gen_base(x) == LOG10[x]
pos_base(p) == POW10[p]

(* ScaleFN.fn of lines 881-907 *)
fn(scaler, x) ==
    CASE scaler.fn = "Base" -> gen_base(x)
      [] scaler.fn = "Square" -> gen_base(x) \div 2
      [] scaler.fn = "Cube" -> gen_base(x) \div 3
      [] scaler.fn = "Inverse" -> Fix - gen_base(x)
      [] scaler.fn = "InverseSquare" -> Fix - gen_base(x) \div 2
      [] scaler.fn = "SquareRoot" -> gen_base(x) * 2
      [] scaler.fn = "CubeRoot" -> gen_base(x) * 3
      [] scaler.fn = "Log10" -> x \div 10
      [] scaler.fn = "Sin" -> gen_base(10 * SIN[x])
      [] scaler.fn = "CoSin" -> gen_base(10 * COS[x])
      [] scaler.fn = "Tan" -> gen_base(10 * TAN[x])
      [] scaler.fn = "Theta" -> x \div 90
      [] scaler.fn = "LogLog" -> gen_base(LN[x])
      [] scaler.fn = "LogLogNeg" -> gen_base(-LN[x])

(* ScaleFN.inverse of the same lines *)
inverse(scaler, p) ==
    CASE scaler.fn = "Base" -> pos_base(p)
      [] scaler.fn = "Square" -> pos_base(p * 2)
      [] scaler.fn = "Cube" -> pos_base(p * 3)
      [] scaler.fn = "Inverse" -> pos_base(Fix - p)
      [] scaler.fn = "InverseSquare" -> pos_base(Fix - p * 2)
      [] scaler.fn = "SquareRoot" -> pos_base(p \div 2)
      [] scaler.fn = "CubeRoot" -> pos_base(p \div 3)
      [] scaler.fn = "Log10" -> p * 10
      [] scaler.fn = "Sin" -> ASIN[p]
      [] scaler.fn = "CoSin" -> ACOS[p]
      [] scaler.fn = "Tan" -> ATAN[pos_base(p)]
      [] scaler.fn = "Theta" -> p * 90
      [] scaler.fn = "LogLog" -> EXP[pos_base(p)]
      [] scaler.fn = "LogLogNeg" -> EXP[pos_base(-p)]

(* math.asin and math.acos raise ValueError outside -1..1 *)
InverseDefined(scaler, p) == scaler.fn \in {"Sin", "CoSin"} => (-Fix <= p /\ p <= Fix)

(* a Scale as the graduation engine sees it *)
GradScale(key, scaler, shift) == [key |-> key, scaler |-> scaler, shift |-> shift]

(* lines 975-993 *)
frac_pos_of(sc, x) == sc.shift + fn(sc.scaler, x)
value_at_frac_pos(sc, frac_pos) == inverse(sc.scaler, frac_pos - sc.shift)
value_at_start(sc) == value_at_frac_pos(sc, 0)
value_at_end(sc) == value_at_frac_pos(sc, Fix)

(* lines 1007-1009: the offset in pixels, counted in 10^-5 *)
(* an offset of Inf (some 10000 pixels) stands for every offset beyond    *)
offset_between(sc, x_start, x_end, scale_width) ==
    LET d == Abs(frac_pos_of(sc, clamp_input(sc.scaler, x_end))
                 - frac_pos_of(sc, clamp_input(sc.scaler, x_start)))
    IN  IF d > Inf \div scale_width THEN Inf ELSE d * scale_width

(* lines 1011-1015 *)
min_offset_for_delta(sc, x_start, x_end, x_delta, scale_width) ==
    Min(offset_between(sc, x_start, x_start + x_delta, scale_width),
        offset_between(sc, x_end - x_delta, x_end, scale_width))

(* lines 286-288 *)
min_tick_offset(g) == g.STT * 3

(* math.ceil(abs(math.log10(num / den))) for num, den > 0 *)
RECURSIVE CeilAbsLog10(_, _, _)
CeilAbsLog10(num, den, k) ==
    IF num <= den
    THEN IF num * 10^k >= den THEN k ELSE CeilAbsLog10(num, den, k + 1)
    ELSE IF den * 10^k >= num THEN k ELSE CeilAbsLog10(num, den, k + 1)

(* int(x * sf) for x >= 0 counted in 10^-5 *)
TimesSf(x, sf) == IF sf <= Fix THEN x \div (Fix \div sf) ELSE x * (sf \div Fix)

(* step_num / i / sf, counted in 10^-5; step_num and sf are powers of ten *)
StepDelta(step_num, i, sf) ==
    IF step_num >= sf THEN ((step_num \div sf) * Fix) \div i
    ELSE Fix \div (i * (sf \div step_num))

(* the condition of lines 548-549 without the test of the gap *)
QualifiesByKey(sc, x_start, x_end, step_num, sf, g, i) == i <= step_num

(* the condition of lines 548-549 without the test i <= step_num *)
QualifiesByGap(sc, x_start, x_end, step_num, sf, g, i) ==
    min_offset_for_delta(sc, x_start, x_end, StepDelta(step_num, i, sf), g.SL)
        >= min_tick_offset(g) * Fix

(* the condition of lines 548-549 on the catalog key i *)
Qualifies(sc, x_start, x_end, step_num, sf, g, i) ==
    /\ i <= step_num
    /\ min_offset_for_delta(sc, x_start, x_end, StepDelta(step_num, i, sf), g.SL)
           >= min_tick_offset(g) * Fix

(* the first key of TF_MIN from index k on that qualifies, 0 if none does: *)
(* the generator handed to next() at line 548                              *)
RECURSIVE FirstQualifying(_, _, _, _, _, _, _)
FirstQualifying(sc, x_start, x_end, step_num, sf, g, k) ==
    IF k > Len(TF_MIN) THEN 0
    ELSE IF Qualifies(sc, x_start, x_end, step_num, sf, g, TF_MIN[k]) THEN TF_MIN[k]
    ELSE FirstQualifying(sc, x_start, x_end, step_num, sf, g, k + 1)

(* the scan of line 548 from the coarsest key to the finest *)
RECURSIVE LastQualifying(_, _, _, _, _, _, _)
LastQualifying(sc, x_start, x_end, step_num, sf, g, k) ==
    IF k < 1 THEN 0
    ELSE IF Qualifies(sc, x_start, x_end, step_num, sf, g, TF_MIN[k]) THEN TF_MIN[k]
    ELSE LastQualifying(sc, x_start, x_end, step_num, sf, g, k - 1)

(* next(..., TF_BY_MIN[1]) scanning TF_MIN from its last key *)
SelectCoarsest(sc, x_start, x_end, step_num, sf, g) ==
    LastQualifying(sc, x_start, x_end, step_num, sf, g, Len(TF_MIN))

(* the key whose triple next() yields at lines 548-550; 0 when the         *)
(* generator is exhausted and the default TF_BY_MIN[1] is taken            *)
SelectFinest(sc, x_start, x_end, step_num, sf, g) ==
    FirstQualifying(sc, x_start, x_end, step_num, sf, g, 1)

NoFont == "<None>"
NoNumeral == [font |-> NoFont, digit1 |-> FALSE]

(* len(range(i_start, i_end, step)) for step > 0 *)
RangeLen(i_start, i_end, step) ==
    IF i_end > i_start THEN (i_end - i_start + step - 1) \div step ELSE 0

(* the loop body with the three tests taken from the finest level up *)
PatTickFinestFirst(i, steps_i, steps_th, steps_font, digit1) ==
    IF i % steps_i[3] = 0
    THEN [i |-> i, tick_h |-> steps_th[3],
          numeral |-> IF steps_font[3] # NoFont
                      THEN [font |-> steps_font[3], digit1 |-> digit1[3]] ELSE NoNumeral]
    ELSE IF i % steps_i[2] = 0
    THEN [i |-> i, tick_h |-> steps_th[2],
          numeral |-> IF steps_font[2] # NoFont
                      THEN [font |-> steps_font[2], digit1 |-> digit1[2]] ELSE NoNumeral]
    ELSE IF i % steps_i[1] = 0
    THEN [i |-> i, tick_h |-> steps_th[1],
          numeral |-> IF steps_font[1] # NoFont
                      THEN [font |-> steps_font[1], digit1 |-> digit1[1]] ELSE NoNumeral]
    ELSE [i |-> i, tick_h |-> steps_th[4], numeral |-> NoNumeral]

(* the body of the loop of Renderer.pat at index i, lines 510-526: the     *)
(* tick that draw_tick places and the numeral that draw_numeral writes     *)
(* with it                                                                 *)
PatTick(i, steps_i, steps_th, steps_font, digit1) ==
    IF i % steps_i[1] = 0
    THEN [i |-> i, tick_h |-> steps_th[1],
          numeral |-> IF steps_font[1] # NoFont
                      THEN [font |-> steps_font[1], digit1 |-> digit1[1]] ELSE NoNumeral]
    ELSE IF i % steps_i[2] = 0
    THEN [i |-> i, tick_h |-> steps_th[2],
          numeral |-> IF steps_font[2] # NoFont
                      THEN [font |-> steps_font[2], digit1 |-> digit1[2]] ELSE NoNumeral]
    ELSE IF i % steps_i[3] = 0
    THEN [i |-> i, tick_h |-> steps_th[3],
          numeral |-> IF steps_font[3] # NoFont
                      THEN [font |-> steps_font[3], digit1 |-> digit1[3]] ELSE NoNumeral]
    ELSE [i |-> i, tick_h |-> steps_th[4], numeral |-> NoNumeral]

(* lines 508-509: digit1 given as one bool *)
Digit1(digit1) == <<digit1, FALSE, FALSE>>

(* n = i / i_sf of line 511, on the grid; a positive value stays positive *)
DivSf(i, i_sf) ==
    IF i_sf <= Fix THEN i * (Fix \div i_sf)
    ELSE IF i > 0 THEN Max(i \div (i_sf \div Fix), 1) ELSE i \div (i_sf \div Fix)

(* math.log10 and math.log raise ValueError (math domain error) for an      *)
(* argument <= 0                                                           *)
FnDefined(scaler, x) ==
    CASE scaler.fn \in {"Base", "Square", "Cube", "Inverse", "InverseSquare",
                        "SquareRoot", "CubeRoot"} -> x > 0
      [] scaler.fn = "Sin" -> SIN[x] > 0
      [] scaler.fn = "CoSin" -> COS[x] > 0
      [] scaler.fn = "Tan" -> TAN[x] > 0
      [] scaler.fn = "LogLog" -> x > 0 /\ LN[x] > 0
      [] scaler.fn = "LogLogNeg" -> x > 0 /\ LN[x] < 0
      [] OTHER -> TRUE

(* Renderer.pat, lines 486-526: the ticks in the order they are drawn;     *)
(* range() raises ValueError for a step of zero.  scale_to_x are the       *)
(* values n that line 512 hands to sc.scale_to, which hands them to        *)
(* frac_pos_of (line 1025) and so to the transform (line 980) as they are; *)
(* the loop ends at the first of them the transform raises for             *)
pat(sc, i_start, i_end, i_sf, steps_i, steps_th, steps_font, digit1) ==
    IF steps_i[4] = 0
    THEN [status |-> "raised", ticks |-> <<>>, scale_to_x |-> {}]
    ELSE LET len == RangeLen(i_start, i_end, steps_i[4])
             i(k) == i_start + (k - 1) * steps_i[4]
             undefined == {k \in 1..len : ~FnDefined(sc.scaler, DivSf(i(k), i_sf))}
             last == IF undefined = {} THEN len
                     ELSE CHOOSE k \in undefined : \A j \in undefined : k <= j
         IN  [status |-> IF undefined = {} THEN "returned" ELSE "raised",
              ticks |-> [k \in 1..(IF undefined = {} THEN len ELSE last - 1) |->
                            PatTick(i(k), steps_i, steps_th, steps_font, digit1)],
              scale_to_x |-> {DivSf(i(k), i_sf) : k \in 1..last}]

(* Renderer.pat_auto, lines 528-581, in the order of its statements: each  *)
(* operator takes the locals computed so far and computes the next ones.   *)

(* lines 576-579: the fonts of the numerals of the three levels *)
pat_auto_fonts(step_num, steps, max_num_chars, sub_num) ==
    << IF max_num_chars < 2 THEN "N_SM" ELSE "N_LG",
       IF (sub_num /\ steps[2] = step_num \div 10) \/ steps[2] = step_num \div 2
       THEN "N_SM" ELSE NoFont,
       IF sub_num /\ steps[3] = step_num \div 10 THEN "N_XS" ELSE NoFont >>

(* lines 569-580: the call of Renderer.pat and what the call leaves *)
pat_auto_draw(sc, x_start, x_end, include_last, sf, step_num, key, steps, i_start, max_num_chars, sub_num) ==
    [key |-> key, x_start |-> x_start, x_end |-> x_end, sf |-> sf, step_num |-> step_num,
     sub_div4 |-> IF key # 0 THEN TF_BY_MIN[key] ELSE TF_BY_MIN[1], steps_i |-> steps,
     max_num_chars |-> max_num_chars,
     steps_font |-> pat_auto_fonts(step_num, steps, max_num_chars, sub_num)]
    @@ pat(sc, i_start, TimesSf(x_end, sf) + (IF include_last THEN 1 ELSE 0), sf,
           <<step_num, steps[2], steps[3], steps[4]>>,
           << "MED",
              IF steps[3] = step_num \div 2 /\ steps[4] < steps[3] THEN "XL" ELSE "XS",
              IF steps[4] < steps[3] THEN "XS" ELSE "DOT",
              "DOT" >>,
           pat_auto_fonts(step_num, steps, max_num_chars, sub_num),
           <<max_num_chars < 3, max_num_chars < 16, max_num_chars < 128>>)

(* pat_auto_setup with sub_num true whatever the steps and the room *)
pat_auto_setup_sub_num(sc, x_start, x_end, include_last, sf, step_num, key, steps, i_start, max_num_chars) ==
    pat_auto_draw(sc, x_start, x_end, include_last, sf, step_num, key, steps,
                  IF i_start % steps[4] > 0
                  THEN i_start - (i_start % steps[4]) + steps[4] ELSE i_start,
                  max_num_chars, TRUE)

(* lines 553-566: i_start aligned to the first tick on or after the start, *)
(* max_num_chars and sub_num                                               *)
pat_auto_setup(sc, x_start, x_end, include_last, sf, step_num, key, steps, i_start, max_num_chars) ==
    pat_auto_draw(sc, x_start, x_end, include_last, sf, step_num, key, steps,
                  IF i_start % steps[4] > 0
                  THEN i_start - (i_start % steps[4]) + steps[4] ELSE i_start,
                  max_num_chars,
                  (steps[4] < steps[3] /\ steps[3] < step_num) /\ max_num_chars > 8)

(* lines 551-562: the steps of the subdivision, int(x_start * sf) and the  *)
(* room for numerals; sym_w is style.sym_width('_', num_font)              *)
pat_auto_steps(sc, x_start, x_end, include_last, g, sym_w, sf, step_num, key) ==
    pat_auto_setup(sc, x_start, x_end, include_last, sf, step_num, key,
                   t_s(step_num, IF key # 0 THEN TF_BY_MIN[key] ELSE TF_BY_MIN[1]),
                   TimesSf(x_start, sf),
                   min_offset_for_delta(sc, x_start, x_end, StepDelta(step_num, 1, sf), g.SL)
                       \div (sym_w * Fix))

(* lines 544-550: sf, step_num and the subdivision selected *)
pat_auto_select(sc, x_start, x_end, include_last, g, sym_w, sf, step_num) ==
    pat_auto_steps(sc, x_start, x_end, include_last, g, sym_w, sf, step_num,
                   SelectFinest(sc, x_start, x_end, step_num, sf, g))

pat_auto_digits(sc, x_start, x_end, include_last, g, sym_w, num_digits) ==
    pat_auto_select(sc, x_start, x_end, include_last, g, sym_w, 10^num_digits,
                    10^Max(IntOf(2 * gen_base(x_end - x_start)
                                   - offset_between(sc, x_start, x_end, 1), 2 * Fix)
                           + num_digits, 0))

(* the ends put in order and the last index left out when they were not *)
pat_auto_range_opening(sc, x_start, x_end, include_last, g, sym_w) ==
    pat_auto_digits(sc, Min(x_start, x_end), Max(x_start, x_end),
                    include_last /\ x_start <= x_end, g, sym_w,
                    CeilAbsLog10(Abs(x_end - x_start), Max(x_start, x_end), 0) + 3)

(* lines 537-542: the ends in order, and num_digits *)
pat_auto_range(sc, x_start, x_end, include_last, g, sym_w) ==
    pat_auto_digits(sc, Min(x_start, x_end), Max(x_start, x_end), include_last, g, sym_w,
                    CeilAbsLog10(Abs(x_end - x_start), Max(x_start, x_end), 0) + 3)

(* lines 533-536: x_start and x_end of 0 stand for the falsy arguments     *)
(* None and 0, which the ends of the scale replace.  The record returned   *)
(* has the ticks drawn and the locals x_start, x_end, sf, step_num,        *)
(* sub_div4 (key 0 for the default of next()) and the steps                *)
pat_auto(sc, x_start, x_end, include_last, g, sym_w) ==
    pat_auto_range(sc, IF x_start = 0 THEN value_at_start(sc) ELSE x_start,
                   IF x_end = 0 THEN value_at_end(sc) ELSE x_end, include_last, g, sym_w)

(* a Ruler: key, tick_pattern, left_offset, num_units, pixels_per_unit     *)
(* (lines 1253-1259); left_offset counted in halves of a unit              *)
GradRuler(key, tick_pattern, left_offset2, num_units, pixels_per_unit) ==
    [key |-> key, tick_pattern |-> tick_pattern, left_offset2 |-> left_offset2,
     num_units |-> num_units, pixels_per_unit |-> pixels_per_unit]

(* Ruler.pat, lines 1271-1296: one tick for every index of                 *)
(* range(0, num_units * i_sf + 1)                                          *)
ruler_pat(ruler, g) ==
    LET i_sf == ruler.tick_pattern[1] * ruler.tick_pattern[2] * ruler.tick_pattern[3]
        steps == t_s(i_sf, ruler.tick_pattern)
        num_units == Min(ruler.num_units,
                         IntOf(2 * g.side_w - ruler.left_offset2 * ruler.pixels_per_unit,
                               2 * ruler.pixels_per_unit))
    IN  [status |-> "returned",
         ticks |-> [k \in 1..RangeLen(0, num_units * i_sf + 1, 1) |->
                       PatTick(k - 1, <<steps[1], steps[2], steps[3], 1>>,
                               <<"LG", "MED", "XS", "DOT">>,
                               <<"N_LG", NoFont, NoFont>>, <<FALSE, FALSE, FALSE>>)],
         steps_i |-> steps]

----------------------------------------------------------------------------
(* The generic fallback: Scale.grad_pat_default, lines 1027-1044.  A scale *)
(* with its defaults: ex_start_value and ex_end_value (0 for None) and its *)
(* dividers (<<>> for None).                                               *)

ScaleWith(sc, ex_start_value, ex_end_value, dividers) ==
    [sc |-> sc, ex_start_value |-> ex_start_value, ex_end_value |-> ex_end_value,
     dividers |-> dividers]

(* math.ceil of a logarithm on the grid *)
CeilLog(p) == -((-p) \div Fix)

(* powers_of_ten_in_range, lines 994-1003, as the list of line 1035; None  *)
(* (here <<>>) when an end of the scale is not positive                    *)
powers_of_ten_in_range(sc) ==
    IF value_at_start(sc) <= 0 \/ value_at_end(sc) <= 0 THEN <<>>
    ELSE [k \in 1..Max(CeilLog(Max(gen_base(value_at_start(sc)), gen_base(value_at_end(sc))))
                         - CeilLog(Min(gen_base(value_at_start(sc)), gen_base(value_at_end(sc)))), 0)
            |-> Fix * 10^(k - 1 + CeilLog(Min(gen_base(value_at_start(sc)),
                                              gen_base(value_at_end(sc)))))]

(* the fallback with every segment including its end *)
DefaultSegmentsAllClosed(start_value, end_value, dividers) ==
    IF dividers # <<>>
    THEN <<[x_start |-> start_value, x_end |-> dividers[1], include_last |-> TRUE]>>
         \o [i \in 1..Len(dividers) |->
                [x_start |-> dividers[i],
                 x_end |-> IF i >= Len(dividers) THEN end_value ELSE dividers[i + 1],
                 include_last |-> TRUE]]
    ELSE <<[x_start |-> start_value, x_end |-> end_value, include_last |-> TRUE]>>

(* lines 1036-1044: the arguments of the calls of pat_auto, in order *)
DefaultSegments(start_value, end_value, dividers) ==
    IF dividers # <<>>
    THEN <<[x_start |-> start_value, x_end |-> dividers[1], include_last |-> FALSE]>>
         \o [i \in 1..Len(dividers) |->
                [x_start |-> dividers[i],
                 x_end |-> IF i >= Len(dividers) THEN end_value ELSE dividers[i + 1],
                 include_last |-> i >= Len(dividers)]]
    ELSE <<[x_start |-> start_value, x_end |-> end_value, include_last |-> TRUE]>>

(* the calls and what each of them draws *)
DefaultCalls(sc, segments, g, sym_w) ==
    [k \in DOMAIN segments |->
        segments[k] @@ pat_auto(sc, segments[k].x_start, segments[k].x_end,
                                segments[k].include_last, g, sym_w)]

(* grad_pat_default with extended left at True *)
grad_pat_default(s, g, sym_w) ==
    [status |-> "returned",
     calls |-> DefaultCalls(s.sc,
                   DefaultSegments(
                       IF s.ex_start_value # 0 THEN s.ex_start_value ELSE value_at_start(s.sc),
                       IF s.ex_end_value # 0 THEN s.ex_end_value ELSE value_at_end(s.sc),
                       IF s.dividers # <<>> THEN s.dividers ELSE powers_of_ten_in_range(s.sc)),
                   g, sym_w)]

----------------------------------------------------------------------------
(* The tick placement of gen_scale, lines 1570-1694: the chain of tests    *)
(* that picks the recipe of a scale and the calls of Renderer.pat of each  *)
(* recipe.  Scale.__eq__ and __hash__ (lines 958-962) compare the keys, so *)
(* sc == Scales.K reads sc.key = "K"; a ScaleFN is compared by identity.   *)

DEBUG == FALSE

(* line 1579 *)
GenScaleSf == 1000

(* pi_fold_shift (line 1057) and shift_360 (line 1127) on the grid *)
pi_fold_shift == 50285
shift_360 == 44370

(* the arguments of one call of Renderer.pat *)
PatCall(i_start, i_end, steps_i, steps_th, steps_font, digit1) ==
    [i_start |-> i_start, i_end |-> i_end, steps_i |-> steps_i, steps_th |-> steps_th,
     steps_font |-> steps_font, digit1 |-> digit1]

(* lines 1571-1578 *)
fonts_lbl == <<"f_lbl", NoFont, NoFont>>
fonts2 == <<"f_lbl", "f_mdn", NoFont>>
fonts_xl == <<"f_xln", NoFont, NoFont>>
fonts_no == <<NoFont, NoFont, NoFont>>
ths1 == <<"th_med", "th_xl", "th_sm", "th_xs">>
ths2 == <<"th_med", "th_xl", "th_xs", "th_xs">>
ths3 == <<"th_med", "th_sm", "th_sm", "th_xs">>
ths4 == <<"th_med", "th_xl", "th_sm", "th_dot">>

(* the chain of tests of lines 1580-1693, named by the scales of the       *)
(* comments of the branches                                                *)
gen_scale_recipe(sc) ==
    IF sc.scaler.fn \in {"Base", "Inverse"} /\ sc.shift = 0 THEN "C/D"
    ELSE IF sc.scaler.fn = "Square" \/ sc.key = "BI" THEN "A/B"
    ELSE IF sc.key = "K" THEN "K"
    ELSE IF sc.key = "R1" THEN "R1"
    ELSE IF sc.key = "R2" THEN "R2"
    ELSE IF (sc.scaler.fn = "Base" /\ sc.shift = pi_fold_shift) \/ sc.key = "CIF" THEN "CF/DF"
    ELSE IF sc.key = "L" THEN "L"
    ELSE IF sc.scaler.fn \in {"Sin", "CoSin"} \/ sc.key \in {"T", "T1", "CoT"} THEN "S/T"
    ELSE IF sc.key = "T2" THEN "T2"
    ELSE IF sc.key = "ST" THEN "ST"
    ELSE IF sc.key = "p%" THEN "Pct"
    ELSE "default"

(* lines 1581-1584 *)
RecipeCD ==
    << PatCall(1000, 2000, t_s(GenScaleSf, TF_BY_MIN[100]), ths3, fonts2, TRUE),
       PatCall(2000, 4000, t_s(GenScaleSf, TF_BY_MIN[50]), ths1, fonts_lbl, FALSE),
       PatCall(4000, 10000 + 1, t_s(GenScaleSf, TF_BY_MIN[20]), ths1, fonts_lbl, TRUE) >>

(* lines 1587-1590: one decade of the squared scales *)
DecadeAB(b) ==
    << PatCall(b, 2 * b, t_s(b, TF_BY_MIN[50]), ths1, fonts_lbl, TRUE),
       PatCall(2 * b, 5 * b, t_s(b, TF_BY_MIN[20]), ths1, fonts_lbl, TRUE),
       PatCall(5 * b, 10 * b + 1, t_s(b, TF_BY_MIN[10]), ths2, fonts_lbl, TRUE) >>

(* lines 1585-1590 *)
RecipeAB == DecadeAB(GenScaleSf) \o DecadeAB(GenScaleSf * 10)

(* lines 1594-1597: one decade of the cube scale *)
DecadeK(b) ==
    << PatCall(b, 3 * b, t_s(b, TF_BY_MIN[20]), ths1, fonts_xl, TRUE),
       PatCall(3 * b, 6 * b, t_s(b, TF_BY_MIN[10]), ths2, fonts_xl, TRUE),
       PatCall(6 * b, 10 * b + 1, t_s(b, TF_BY_MIN[5]), ths2, fonts_xl, TRUE) >>

(* lines 1592-1597 *)
RecipeK == DecadeK(GenScaleSf) \o DecadeK(GenScaleSf * 10) \o DecadeK(GenScaleSf * 100)

(* lines 1599-1602; int(3.17 * sf) is 3170 *)
RecipeR1 ==
    << PatCall(1000, 2000, t_s(GenScaleSf \div 10, TF_BY_MIN[20]), ths1, fonts_no, TRUE),
       PatCall(2000, 3170 + 1, t_s(GenScaleSf, TF_BY_MIN[100]),
               <<"th_med", "th_med", "th_sm", "th_xs">>, fonts2, TRUE) >>

(* lines 1611-1614 *)
RecipeR2 ==
    << PatCall(3160, 5000, t_s(GenScaleSf, TF_BY_MIN[100]), ths3, fonts2, TRUE),
       PatCall(5000, 10000 + 1, t_s(GenScaleSf, TF_BY_MIN[50]), ths1, fonts_lbl, TRUE) >>

(* lines 1616-1625; fp1 is int(0.31 * sf) for CIF and int(0.314 * sf)      *)
(* otherwise, fpe int(3.2 * sf) for CIF and fp1 * TEN otherwise            *)
RecipeCF(is_cif) ==
    << PatCall(IF is_cif THEN 310 ELSE 314, 400,
               t_s(GenScaleSf \div 10, TF_BY_MIN[50]), ths1, fonts_lbl, TRUE),
       PatCall(400, 1000, t_s(GenScaleSf \div 10, TF_BY_MIN[20]), ths1, fonts_lbl, TRUE),
       PatCall(1000, 2000, t_s(GenScaleSf, TF_BY_MIN[100]), ths3, fonts2, TRUE),
       PatCall(2000, (IF is_cif THEN 3200 ELSE 3140) + 1,
               t_s(GenScaleSf, TF_BY_MIN[50]), ths1, fonts_lbl, TRUE) >>

(* lines 1627-1628 *)
RecipeL ==
    << PatCall(0, 10 * GenScaleSf + 1, t_s(GenScaleSf, TF_BY_MIN[50]),
               <<"th_lg", "th_xl", "th_med", "th_xs">>, fonts_no, TRUE) >>

(* lines 1632-1648; is_tan is sc.scaler in {ScaleFNs.Tan, ScaleFNs.CoTan} *)
RecipeST(is_tan) ==
    IF is_tan
    THEN << PatCall(5700, 10000, t_s(GenScaleSf, TF_BY_MIN[20]),
                    <<"th_xl", "th_xl", "th_sm", "th_xs">>, fonts_no, TRUE),
            PatCall(10000, 25000, t_s(GenScaleSf, TF_BY_MIN[10]),
                    <<"th_xl", "th_sm", "th_xs", "th_xs">>, fonts_no, TRUE),
            PatCall(25000, 45000 + 1, t_s(GenScaleSf * 5, <<5, 5, 1>>),
                    <<"th_xl", "th_med", "th_xs", "th_xs">>, fonts_no, TRUE) >>
    ELSE << PatCall(5700, 20000, t_s(GenScaleSf, TF_BY_MIN[10]),
                    <<"th_xl", "th_sm", "th_xs", "th_xs">>, fonts_no, TRUE),
            PatCall(20000, 30000, t_s(GenScaleSf * 5, <<5, 5, 1>>),
                    <<"th_xl", "th_sm", "th_xs", "th_xs">>, fonts_no, TRUE),
            PatCall(30000, 60000, t_s(GenScaleSf * 10, TF_BY_MIN[20]),
                    <<"th_xl", "th_xl", "th_sm", "th_xs">>, fonts_no, TRUE),
            PatCall(60000, 80000, t_s(GenScaleSf * 10, TF_BY_MIN[10]),
                    <<"th_xl", "th_sm", "th_xs", "th_xs">>, fonts_no, TRUE),
            PatCall(80000, 90000 + 1, t_s(GenScaleSf * 10, <<2, 1, 1>>),
                    <<"th_med", "th_sm", "th_xs", "th_xs">>, fonts_no, TRUE) >>

(* lines 1667-1670; int(angle_opp(5.7) * sf) is 84300 *)
RecipeT2 ==
    << PatCall(45000, 75000, t_s(GenScaleSf * 5, <<5, 2, 5>>), ths4, fonts_xl, FALSE),
       PatCall(75000, 84300, t_s(GenScaleSf * 5, <<5, 2, 10>>), ths4, fonts_xl, FALSE) >>

(* lines 1672-1677; int(0.57 * sf) is 570 and int(5.8 * sf) is 5800 *)
RecipeSinTan ==
    << PatCall(570, 1000, t_s(GenScaleSf, <<20, 5, 2>>), ths1, fonts_no, TRUE),
       PatCall(1000, 2000, t_s(GenScaleSf \div 10, <<1, 2, 5>>), ths1, fonts_no, TRUE),
       PatCall(2000, 4000, t_s(GenScaleSf \div 2, TF_BY_MIN[25]), ths1, fonts_no, TRUE),
       PatCall(4000, 5800 + 1, t_s(GenScaleSf, <<1, 10, 2>>), ths1, fonts_no, TRUE) >>

(* the calls of Renderer.pat of a recipe, in order; the fallback and the   *)
(* percent scale call it through pat_auto or not at all                    *)
RecipePats(sc, recipe) ==
    CASE recipe = "C/D" -> RecipeCD
      [] recipe = "A/B" -> RecipeAB
      [] recipe = "K" -> RecipeK
      [] recipe = "R1" -> RecipeR1
      [] recipe = "R2" -> RecipeR2
      [] recipe = "CF/DF" -> RecipeCF(sc.key = "CIF")
      [] recipe = "L" -> RecipeL
      [] recipe = "S/T" -> RecipeST(sc.scaler.fn \in {"Tan", "CoTan"})
      [] recipe = "T2" -> RecipeT2
      [] recipe = "ST" -> RecipeSinTan
      [] OTHER -> <<>>

(* the calls of a recipe with what each of them draws *)
GenScalePats(sc, args) ==
    [k \in DOMAIN args |->
        args[k] @@ pat(sc, args[k].i_start, args[k].i_end, GenScaleSf, args[k].steps_i,
                       args[k].steps_th, args[k].steps_font, Digit1(args[k].digit1))]

(* the calls up to the first that raises *)
GenScaleDrawn(recipe, pats, calls) ==
    IF \E k \in DOMAIN pats : pats[k].status = "raised"
    THEN [status |-> "raised", recipe |-> recipe, calls |-> <<>>,
          pats |-> SubSeq(pats, 1, CHOOSE k \in DOMAIN pats :
                      /\ pats[k].status = "raised"
                      /\ \A j \in 1..(k - 1) : pats[j].status # "raised")]
    ELSE [status |-> "returned", recipe |-> recipe, calls |-> calls, pats |-> pats]

(* the tick placement with the recipe chosen; lines 1684-1686 and 1693-1694 *)
(* hand the scale to grad_pat_default                                      *)
gen_scale_place(s, g, sym_w, recipe) ==
    GenScaleDrawn(recipe, GenScalePats(s.sc, RecipePats(s.sc, recipe)),
                  IF recipe = "default" \/ (recipe = "Pct" /\ DEBUG)
                  THEN grad_pat_default(s, g, sym_w).calls ELSE <<>>)

gen_scale(s, g, sym_w) == gen_scale_place(s, g, sym_w, gen_scale_recipe(s.sc))

----------------------------------------------------------------------------
(* The numeral of a tick reduced to one digit: sig_digit_of, lines         *)
(* 1705-1726.  A number is on the grid of Fix; str() writes a float below  *)
(* 1e-4 with an exponent ("3e-05") and any other as a decimal ("0.25").    *)

RECURSIVE LeadingDigit(_)
LeadingDigit(m) == IF m < 10 THEN m ELSE LeadingDigit(m \div 10)

RECURSIVE LastNonZeroDigit(_)
LastNonZeroDigit(m) == IF m % 10 # 0 THEN m % 10 ELSE LastNonZeroDigit(m \div 10)

(* num > 0 and math.log10(num).is_integer(), line 1719 *)
IsPowerOfTen(num) == \E k \in 0..9 : num = 10^k

(* first_digit_of, lines 1705-1707: int(str(x)[0]); the first character of *)
(* a negative number is its sign, which int() raises ValueError for        *)
first_digit_of(x) ==
    IF x < 0 THEN [status |-> "raised"]
    ELSE IF x >= Fix THEN [status |-> "returned", num |-> LeadingDigit(x \div Fix) * Fix]
    ELSE IF x >= 10 \/ x = 0 THEN [status |-> "returned", num |-> 0]
    ELSE [status |-> "returned", num |-> x * Fix]

(* last_digit_of, lines 1710-1714: int(str(x)[-1]), of int(x) when x is    *)
(* whole; the last character of a float below 1e-4 is the last digit of    *)
(* its exponent                                                            *)
last_digit_of(x) ==
    IF x % Fix = 0 THEN [status |-> "returned", num |-> ((Abs(x) \div Fix) % 10) * Fix]
    ELSE IF Abs(x) >= 10 THEN [status |-> "returned", num |-> LastNonZeroDigit(Abs(x)) * Fix]
    ELSE [status |-> "returned", num |-> 5 * Fix]

(* sig_digit_of, lines 1717-1726 *)
sig_digit_of(num) ==
    IF ~IsPowerOfTen(num)
    THEN IF num % (10 * Fix) = 0 THEN first_digit_of(num)
         ELSE IF num < Fix THEN last_digit_of(num)
         ELSE [status |-> "returned", num |-> num]
    ELSE first_digit_of(num)

----------------------------------------------------------------------------
(* The calls of the graduation engine that are explored.                   *)

MaxStep1 == 12     \* largest of the small outer steps handed to t_s
MaxStart == 3      \* largest start index handed to Renderer.pat
MaxWidthK == 10    \* widest scale, in steps of 800 pixels
MaxSTT == 10       \* thickest tick stroke, in pixels
MaxNumeral == 30   \* largest index a numeral is taken from

(* the factor triples of the hand-tuned recipes that are not in the        *)
(* catalog (lines 1640, 1648, 1669, 1670, 1674, 1675, 1677)                *)
RecipeTriples ==
    {<<5, 5, 1>>, <<2, 1, 1>>, <<5, 2, 5>>, <<5, 2, 10>>, <<20, 5, 2>>, <<1, 2, 5>>, <<1, 10, 2>>}

CatalogTriples == {TF_BY_MIN[i] : i \in DOMAIN TF_BY_MIN}

Triples == CatalogTriples \cup {TF_BIN} \cup RecipeTriples

(* Scales.C, A, CI, L, Theta (lines 1061-1073, 1120) *)
GradScales ==
    [C |-> GradScale("C", ScaleFNs.Base, 0),
     A |-> GradScale("A", ScaleFNs.Square, 0),
     CI |-> GradScale("CI", ScaleFNs.Inverse, 0),
     L |-> GradScale("L", ScaleFNs.Log10, 0),
     Theta |-> GradScale("Theta", ScaleFNs.Theta, 0)]

(* the ranges x_start..x_end that are graduated, 0 for an argument left    *)
(* out: whole scales, decades and parts of decades                         *)
GradRanges ==
    { <<GradScales.C, 0, 0>>, <<GradScales.C, Fix, 10 * Fix>>, <<GradScales.C, Fix, 2 * Fix>>,
      <<GradScales.C, 2 * Fix, 5 * Fix>>, <<GradScales.C, Fix \div 1000, Fix \div 200>>,
      <<GradScales.C, Fix + 5, 2 * Fix>>, <<GradScales.C, 57 * (Fix \div 100), Fix>>,
      <<GradScales.C, 15, 50>>,
      <<GradScales.C, 2 * Fix, Fix>>, <<GradScales.C, 50, 15>>,
      <<GradScales.A, 100 * Fix, 10 * Fix>>, <<GradScales.Theta, 50 * Fix, 10 * Fix>>,
      <<GradScales.A, Fix, 10 * Fix>>, <<GradScales.A, 10 * Fix, 100 * Fix>>,
      <<GradScales.CI, 0, 0>>,
      <<GradScales.L, 0, 0>>, <<GradScales.L, 2 * Fix, 5 * Fix>>,
      <<GradScales.Theta, 0, 0>>, <<GradScales.Theta, 10 * Fix, 50 * Fix>> }

(* Geometry: tick thickness, scale length, side width (lines 204-220).    *)
(* 3 and 5600 are the defaults; a scale of 80 pixels is one too short for  *)
(* any subdivision                                                         *)
Geometries ==
    {[STT |-> t, SL |-> w, side_w |-> w + 2400] :
        t \in {1, 3, MaxSTT}, w \in {80, 5600, 800 * MaxWidthK}}
    \cup {[STT |-> 10, SL |-> 8000, side_w |-> 8000]}

(* Rulers.CM, IN_DEC, IN_BIN (lines 1301-1303), pixels_per_unit rounded *)
GradRulers ==
    { GradRuler("cm", TF_BY_MIN[20], 3, 30, 267),
      GradRuler("in", TF_BY_MIN[50], 1, 12, 677),
      GradRuler("in", TF_BIN, 1, 12, 677) }

FontChoices == {<<"N_LG", "N_SM", "N_XS">>, <<"N_LG", NoFont, NoFont>>, <<NoFont, NoFont, NoFont>>}

TSCalls ==
    {[op |-> "t_s", s1 |-> s1, f |-> f] :
        s1 \in (1..MaxStep1) \cup {100, 500, 1000, 5000}, f \in Triples}

PatCalls ==
    {[op |-> "pat", sc |-> GradScales.L, i_start |-> i_start, i_end |-> i_end, i_sf |-> 100,
      steps_i |-> t_s(s1, f), steps_th |-> <<"th1", "th2", "th3", "th4">>,
      steps_font |-> fonts, digit1 |-> Digit1(TRUE)] :
        i_start \in 0..MaxStart, i_end \in {40, 201}, s1 \in {1, 10, 100},
        f \in CatalogTriples \cup {TF_BIN, <<5, 2, 10>>}, fonts \in FontChoices}
    \cup
    {[op |-> "pat", sc |-> GradScales.C, i_start |-> i_start, i_end |-> 40, i_sf |-> 100,
      steps_i |-> t_s(10, TF_BY_MIN[10]), steps_th |-> <<"th1", "th2", "th3", "th4">>,
      steps_font |-> <<"N_LG", NoFont, NoFont>>, digit1 |-> Digit1(TRUE)] :
        i_start \in 0..MaxStart}
    \cup
    (* line 1628 with sf = 100 *)
    {[op |-> "pat", sc |-> GradScales.L, i_start |-> 0, i_end |-> 10 * 100 + 1, i_sf |-> 100,
      steps_i |-> t_s(100, TF_BY_MIN[50]), steps_th |-> <<"LG", "XL", "MED", "XS">>,
      steps_font |-> <<NoFont, NoFont, NoFont>>, digit1 |-> Digit1(TRUE)]}

PatAutoCalls ==
    {[op |-> "pat_auto", sc |-> r[1], x_start |-> r[2], x_end |-> r[3],
      include_last |-> il, g |-> g, sym_w |-> 30] :
        r \in GradRanges, il \in BOOLEAN, g \in Geometries}

RulerPatCalls ==
    {[op |-> "ruler_pat", ruler |-> ru, g |-> g] : ru \in GradRulers, g \in Geometries}

(* AristoCommerzScales.KZ and P2 (lines 1135-1139), the scale of KZ with   *)
(* one divider, without its defaults, and Scales.Theta and L left to the   *)
(* fallback                                                                *)
KZ == GradScale("KZ", ScaleFNs.Base, 44370)
P2 == GradScale("P2", ScaleFNs.Inverse, -55630)
DefaultScales ==
    { ScaleWith(KZ, 3 * (Fix \div 10), 4 * Fix, <<4 * (Fix \div 10), Fix, 2 * Fix>>),
      ScaleWith(P2, Fix \div 4, 33 * (Fix \div 10), <<4 * (Fix \div 10), Fix, 2 * Fix>>),
      ScaleWith(KZ, 3 * (Fix \div 10), 4 * Fix, <<35 * (Fix \div 100), Fix>>),
      ScaleWith(KZ, 0, 0, <<>>),
      ScaleWith(GradScales.Theta, 0, 0, <<>>),
      ScaleWith(GradScales.L, 0, 0, <<>>) }

GradPatDefaultCalls ==
    {[op |-> "grad_pat_default", s |-> s, g |-> g, sym_w |-> 30] :
        s \in DefaultScales, g \in Geometries}

(* the numerals n = i / i_sf of line 511 *)
SigDigitCalls ==
    {[op |-> "sig_digit_of", i |-> i, i_sf |-> i_sf] :
        i \in (-MaxNumeral)..MaxNumeral, i_sf \in {1, 10, 100, 1000, Fix}}

(* ScaleFNs.CoTan and SinTan (lines 893-896) and the transform of the      *)
(* percent scale (lines 1141-1142): gen_scale tests which transform a      *)
(* scale has, and these are defined wherever their recipes put a tick      *)
OtherScaleFNs ==
    [CoTan  |-> [fn |-> "CoTan",  is_increasing |-> FALSE, min_x |-> -Inf, max_x |-> Inf],
     SinTan |-> [fn |-> "SinTan", is_increasing |-> TRUE,  min_x |-> -Inf, max_x |-> Inf],
     Pct    |-> [fn |-> "Pct",    is_increasing |-> TRUE,  min_x |-> -Inf, max_x |-> Inf]]

(* a scale of a namespace without defaults of its own *)
PlainScale(key, scaler, shift) == ScaleWith(GradScale(key, scaler, shift), 0, 0, <<>>)

(* the scales of class Scales (lines 1060-1124) whose transforms are       *)
(* modelled, and those of AristoCommerzScales (lines 1130-1146), by their  *)
(* names in the namespaces                                                 *)
Catalog ==
    [Scales |->
        [A |-> PlainScale("A", ScaleFNs.Square, 0),
         B |-> PlainScale("B", ScaleFNs.Square, 0),
         BI |-> PlainScale("BI", ScaleFNs.InverseSquare, 0),
         C |-> PlainScale("C", ScaleFNs.Base, 0),
         CF |-> PlainScale("CF", ScaleFNs.Base, pi_fold_shift),
         DF |-> PlainScale("DF", ScaleFNs.Base, pi_fold_shift),
         CI |-> PlainScale("CI", ScaleFNs.Inverse, 0),
         CIF |-> PlainScale("CIF", ScaleFNs.Inverse, pi_fold_shift - Fix),
         D |-> PlainScale("D", ScaleFNs.Base, 0),
         DI |-> PlainScale("DI", ScaleFNs.Inverse, 0),
         K |-> PlainScale("K", ScaleFNs.Cube, 0),
         L |-> PlainScale("L", ScaleFNs.Log10, 0),
         R1 |-> PlainScale("R1", ScaleFNs.SquareRoot, 0),
         R2 |-> PlainScale("R2", ScaleFNs.SquareRoot, -Fix),
         S |-> PlainScale("S", ScaleFNs.Sin, 0),
         ST |-> PlainScale("ST", OtherScaleFNs.SinTan, 0),
         CoT |-> PlainScale("CoT", OtherScaleFNs.CoTan, -Fix),
         T2 |-> PlainScale("T2", ScaleFNs.Tan, -Fix),
         Theta |-> PlainScale("Theta", ScaleFNs.Theta, 0)],
     AristoCommerzScales |->
        [Z |-> ScaleWith(GradScale("D", ScaleFNs.Base, 0), 0, 0, <<2 * Fix, 4 * Fix>>),
         T1 |-> ScaleWith(GradScale("T1", ScaleFNs.Base, 0), 0, 0, <<2 * Fix, 4 * Fix>>),
         P1 |-> ScaleWith(GradScale("P1", ScaleFNs.Inverse, 0), 0, 0, <<2 * Fix, 4 * Fix>>),
         KZ |-> ScaleWith(GradScale("KZ", ScaleFNs.Base, shift_360), 3 * (Fix \div 10), 4 * Fix,
                          <<4 * (Fix \div 10), Fix, 2 * Fix>>),
         T2 |-> ScaleWith(GradScale("T2", ScaleFNs.Base, shift_360), 3 * (Fix \div 10), 4 * Fix,
                          <<4 * (Fix \div 10), Fix, 2 * Fix>>),
         P2 |-> ScaleWith(GradScale("P2", ScaleFNs.Inverse, shift_360 - Fix), Fix \div 4,
                          33 * (Fix \div 10), <<4 * (Fix \div 10), Fix, 2 * Fix>>),
         Pct |-> ScaleWith(GradScale("p%", OtherScaleFNs.Pct, shift_360), -50 * Fix, 100 * Fix,
                           <<0>>),
         Libra |-> PlainScale("Libra", ScaleFNs.Log10, 0)]]

(* gen_scale for every scale of the catalog at the default stroke *)
GenScaleCalls ==
    UNION {{[op |-> "gen_scale", ns |-> ns, name |-> name, s |-> Catalog[ns][name],
             g |-> g, sym_w |-> 30] :
                name \in DOMAIN Catalog[ns], g \in {h \in Geometries : h.STT = 3}} :
           ns \in DOMAIN Catalog}

GradCalls ==
    TSCalls \cup PatCalls \cup PatAutoCalls \cup RulerPatCalls \cup SigDigitCalls
    \cup GradPatDefaultCalls \cup GenScaleCalls

(* no Layout is under construction *)
LayoutIdle ==
    /\ front_str = <<>> /\ rear_str = <<>> /\ scale_ns = "Scales"
    /\ align_overrides = NoOverrides /\ pc = "idle"
    /\ sc_keys = NoKeys /\ scale_aligns = NoAligns /\ error = NoError

InitGrad ==
    /\ LayoutIdle /\ ScalerIdle /\ SymbolIdle /\ MainIdle
    /\ grad_call \in GradCalls
    /\ grad_ret = [status |-> "none"]

TS ==
    /\ grad_call.op = "t_s" /\ grad_ret.status = "none"
    /\ grad_ret' = [status |-> "returned", steps_i |-> t_s(grad_call.s1, grad_call.f)]
    /\ UNCHANGED <<grad_call, layout_vars, scaler_vars, symbol_vars, main_vars>>

Pat ==
    /\ grad_call.op = "pat" /\ grad_ret.status = "none"
    /\ grad_ret' = pat(grad_call.sc, grad_call.i_start, grad_call.i_end, grad_call.i_sf,
                       grad_call.steps_i, grad_call.steps_th, grad_call.steps_font,
                       grad_call.digit1)
    /\ UNCHANGED <<grad_call, layout_vars, scaler_vars, symbol_vars, main_vars>>

PatAuto ==
    /\ grad_call.op = "pat_auto" /\ grad_ret.status = "none"
    /\ grad_ret' = pat_auto(grad_call.sc, grad_call.x_start, grad_call.x_end,
                            grad_call.include_last, grad_call.g, grad_call.sym_w)
    /\ UNCHANGED <<grad_call, layout_vars, scaler_vars, symbol_vars, main_vars>>

RulerPat ==
    /\ grad_call.op = "ruler_pat" /\ grad_ret.status = "none"
    /\ grad_ret' = ruler_pat(grad_call.ruler, grad_call.g)
    /\ UNCHANGED <<grad_call, layout_vars, scaler_vars, symbol_vars, main_vars>>

SigDigitOf ==
    /\ grad_call.op = "sig_digit_of" /\ grad_ret.status = "none"
    /\ grad_ret' = sig_digit_of(DivSf(grad_call.i, grad_call.i_sf))
    /\ UNCHANGED <<grad_call, layout_vars, scaler_vars, symbol_vars, main_vars>>

GradPatDefault ==
    /\ grad_call.op = "grad_pat_default" /\ grad_ret.status = "none"
    /\ grad_ret' = grad_pat_default(grad_call.s, grad_call.g, grad_call.sym_w)
    /\ UNCHANGED <<grad_call, layout_vars, scaler_vars, symbol_vars, main_vars>>

GenScale ==
    /\ grad_call.op = "gen_scale" /\ grad_ret.status = "none"
    /\ grad_ret' = gen_scale(grad_call.s, grad_call.g, grad_call.sym_w)
    /\ UNCHANGED <<grad_call, layout_vars, scaler_vars, symbol_vars, main_vars>>

NextGrad == TS \/ Pat \/ PatAuto \/ RulerPat \/ SigDigitOf \/ GradPatDefault \/ GenScale

SpecGrad == InitGrad /\ [][NextGrad]_vars

----------------------------------------------------------------------------
(* Round trips through the transforms: ScaleFN.position_of, lines 863-864, *)
(* and ScaleFN.value_at, lines 866-867.                                    *)

(* values of the declared domain of each transform: numbers for the        *)
(* logarithmic ones, degrees for the angular ones, numbers above 1 and     *)
(* below 1 for the two log-log ones                                        *)
Numbers == {Fix \div 2, Fix, 2 * Fix, 5 * Fix, 10 * Fix, 100 * Fix}
Degrees == {10 * Fix, 30 * Fix, 45 * Fix, 60 * Fix, 80 * Fix}
RightAngles == {9 * (Fix \div 10), 9 * Fix, 45 * Fix, 90 * Fix, 180 * Fix}
AboveOne == {3 * (Fix \div 2), 2 * Fix, 5 * Fix, 10 * Fix, 100 * Fix}
BelowOne == {Fix \div 10, Fix \div 5, Fix \div 2, 9 * (Fix \div 10)}

SamplesOf(scaler) ==
    CASE scaler.fn \in {"Sin", "CoSin", "Tan"} -> Degrees
      [] scaler.fn = "Theta" -> RightAngles
      [] scaler.fn = "LogLog" -> AboveOne
      [] scaler.fn = "LogLogNeg" -> BelowOne
      [] OTHER -> Numbers

ScalerCalls ==
    {[op |-> "position_of", scaler |-> ScaleFNs[n], value |-> v] :
        n \in DOMAIN ScaleFNs, v \in Numbers \cup Degrees \cup RightAngles
                                        \cup AboveOne \cup BelowOne}

InitScaler ==
    /\ LayoutIdle /\ GradIdle /\ SymbolIdle /\ MainIdle
    /\ scaler_call \in {c \in ScalerCalls : c.value \in SamplesOf(c.scaler)}
    /\ scaler_ret = [status |-> "none"]

(* position_of: self.fn(value) *)
PositionOf ==
    /\ scaler_call.op = "position_of" /\ scaler_ret.status = "none"
    /\ scaler_ret' = IF FnDefined(scaler_call.scaler, scaler_call.value)
                      THEN [status |-> "position",
                            position |-> fn(scaler_call.scaler, scaler_call.value)]
                      ELSE [status |-> "raised"]
    /\ UNCHANGED <<scaler_call, layout_vars, grad_vars, symbol_vars, main_vars>>

(* value_at: self.inverse(position) *)
ValueAt ==
    /\ scaler_ret.status = "position"
    /\ scaler_ret' = IF InverseDefined(scaler_call.scaler, scaler_ret.position)
                      THEN [status |-> "value", position |-> scaler_ret.position,
                            value |-> inverse(scaler_call.scaler, scaler_ret.position)]
                      ELSE [status |-> "raised"]
    /\ UNCHANGED <<scaler_call, layout_vars, grad_vars, symbol_vars, main_vars>>

NextScaler == PositionOf \/ ValueAt

SpecScaler == InitScaler /\ [][NextScaler]_vars

----------------------------------------------------------------------------
(* Labels: symbol_parts and its helpers, lines 746-793.  A label is a       *)
(* sequence of characters; "sup2" and "sup-" stand for the superscripts ²  *)
(* and ⁻, "sub2" for the subscript ₂, "+" for a character of no class.    *)

MaxLabelLen == 3   \* longest label taken apart

(* [-0-9.A-Za-z] of RE_EXPON_CARET and RE_SUB_UNDERSCORE, lines 746-747 *)
TextClass == {"x", "y", "2", "-"}

(* the classes of RE_EXPON_UNICODE and RE_SUB_UNICODE, lines 748-749 *)
SuperscriptClass == {"sup2", "sup-"}
SubscriptClass == {"sub2"}

(* line 777 *)
PRIMES == {"'"}

LabelChars ==
    TextClass \cup SuperscriptClass \cup SubscriptClass \cup PRIMES \cup {"^", "_", "+"}

(* None, which is no label *)
NoPart == <<"<None>">>

(* lines 752-755 *)
num_char_convert(char) ==
    CASE char = "sup-" -> "-"
      [] char \in {"sup2", "sub2"} -> "2"

(* lines 758-759 *)
unicode_sub_convert(symbol) == [k \in DOMAIN symbol |-> num_char_convert(symbol[k])]

(* where ^(.+)d([class]+)$ matches: the delimiter that has a character     *)
(* before it and only characters of the class, at least one, after it up   *)
(* to the end; 0 if there is none                                          *)
TextMatch(symbol, delimiter) ==
    LET at == {k \in 2..(Len(symbol) - 1) :
                  /\ symbol[k] = delimiter
                  /\ \A j \in (k + 1)..Len(symbol) : symbol[j] \in TextClass}
    IN  IF at = {} THEN 0 ELSE CHOOSE k \in at : \A j \in at : j <= k

(* where ^([^class]+)([class]+)$ matches: the length of the first group,   *)
(* characters outside the class followed by characters of the class up to  *)
(* the end; 0 if there is none                                             *)
UnicodeMatch(symbol, class) ==
    LET at == {k \in 1..(Len(symbol) - 1) :
                  /\ \A j \in 1..k : symbol[j] \notin class
                  /\ \A j \in (k + 1)..Len(symbol) : symbol[j] \in class}
    IN  IF at = {} THEN 0 ELSE CHOOSE k \in at : TRUE

(* lines 762-774 *)
split_symbol_by(symbol, delimiter, class) ==
    IF TextMatch(symbol, delimiter) > 0
    THEN <<SubSeq(symbol, 1, TextMatch(symbol, delimiter) - 1),
           SubSeq(symbol, TextMatch(symbol, delimiter) + 1, Len(symbol))>>
    ELSE IF UnicodeMatch(symbol, class) > 0
    THEN <<SubSeq(symbol, 1, UnicodeMatch(symbol, class)),
           unicode_sub_convert(SubSeq(symbol, UnicodeMatch(symbol, class) + 1, Len(symbol)))>>
    ELSE <<symbol, NoPart>>

(* symbol_with_expon without the test for a prime *)
symbol_with_expon_unprimed(symbol) == split_symbol_by(symbol, "^", SuperscriptClass)

(* lines 780-783 *)
symbol_with_expon(symbol) ==
    IF Len(symbol) > 1 /\ symbol[Len(symbol)] \in PRIMES
    THEN <<SubSeq(symbol, 1, Len(symbol) - 1), SubSeq(symbol, Len(symbol), Len(symbol))>>
    ELSE split_symbol_by(symbol, "^", SuperscriptClass)

(* lines 786-787 *)
symbol_with_subscript(symbol) == split_symbol_by(symbol, "_", SubscriptClass)

(* lines 790-793: (base_sym, expon, subscript) *)
symbol_parts(symbol) ==
    <<symbol_with_expon(symbol_with_subscript(symbol)[1])[1],
      symbol_with_expon(symbol_with_subscript(symbol)[1])[2],
      symbol_with_subscript(symbol)[2]>>

RECURSIVE LabelsOfLen(_)
LabelsOfLen(n) ==
    IF n = 0 THEN {<<>>}
    ELSE {Append(l, c) : l \in LabelsOfLen(n - 1), c \in LabelChars}

Labels == UNION {LabelsOfLen(n) : n \in 0..MaxLabelLen}

InitSymbol ==
    /\ LayoutIdle /\ GradIdle /\ ScalerIdle /\ MainIdle
    /\ symbol_call \in {[op |-> "symbol_parts", symbol |-> l] : l \in Labels}
    /\ symbol_ret = [status |-> "none"]

SymbolParts ==
    /\ symbol_call.op = "symbol_parts" /\ symbol_ret.status = "none"
    /\ symbol_ret' = [status |-> "returned", parts |-> symbol_parts(symbol_call.symbol)]
    /\ UNCHANGED <<symbol_call, layout_vars, grad_vars, scaler_vars, main_vars>>

NextSymbol == SymbolParts

SpecSymbol == InitSymbol /\ [][NextSymbol]_vars

----------------------------------------------------------------------------
(* The command line: main, lines 1757-1807, and save_png, lines 1746-1751. *)
(* A render draws its image in memory step by step; any step may raise,    *)
(* and main catches nothing.                                               *)

MaxDrawSteps == 2   \* drawing steps of one render

(* Mode, lines 1729-1732; NoMode is main() run without --mode *)
RENDER == "render"
DIAGNOSTIC == "diagnostic"
STICKERPRINT == "stickerprint"
Mode == {RENDER, DIAGNOSTIC, STICKERPRINT}
NoMode == "<None>"

NoSuffix == "<None>"

(* the command lines: --mode, --model, --suffix, --test *)
CliArgs ==
    [op : {"main"}, mode : Mode \cup {NoMode}, model : {"Demo", "Aristo868"},
     suffix : {NoSuffix, "v2"}, test : BOOLEAN]

(* line 1783 *)
output_suffix(args) ==
    IF args.suffix # NoSuffix THEN args.suffix ELSE IF args.test THEN "test" ELSE NoSuffix

(* the render and save calls main makes for a mode, in order (lines        *)
(* 1790-1805)                                                              *)
Plan(mode) ==
    CASE mode = RENDER -> <<"render_sliderule", "save_sliderule", "return">>
      [] mode = DIAGNOSTIC -> <<"render_diagnostic", "save_diagnostic", "return">>
      [] mode = STICKERPRINT ->
            <<"render_sliderule", "render_stickerprint", "save_stickerprint", "return">>

(* the call after this one *)
NextCall(mode, call) ==
    Plan(mode)[1 + CHOOSE k \in DOMAIN Plan(mode) : Plan(mode)[k] = call]

(* the image a call renders or saves, and the name save_png gives its file *)
ImageOf(call) ==
    CASE call \in {"render_sliderule", "save_sliderule"} -> "sliderule_img"
      [] call \in {"render_diagnostic", "save_diagnostic"} -> "diagnostic_img"
      [] call \in {"render_stickerprint", "save_stickerprint"} -> "stickerprint_img"

BasenameOf(call) ==
    CASE call = "save_sliderule" -> "SlideRuleScales"
      [] call = "save_diagnostic" -> "Diagnostic"
      [] call = "save_stickerprint" -> "StickerCut"

(* the images in memory when main reaches a call: a render starts on an   *)
(* image with nothing drawn                                                *)
Enter(imgs, call) ==
    IF call \in {"render_sliderule", "render_diagnostic", "render_stickerprint"}
    THEN imgs @@ (ImageOf(call) :> [drawn |-> 0, returned |-> FALSE])
    ELSE imgs

Rendering == main_pc \in {"render_sliderule", "render_diagnostic", "render_stickerprint"}
Saving == main_pc \in {"save_sliderule", "save_diagnostic", "save_stickerprint"}

(* an exception raised in a render that goes on to the next call of main *)
AfterRaiseCaught(mode, call) == NextCall(mode, call)

(* where main is after an exception raised in a call: nothing      *)
(* catches it, main is left                                                *)
AfterRaise(mode, call) == "raised"

InitMain ==
    /\ LayoutIdle /\ GradIdle /\ ScalerIdle /\ SymbolIdle
    /\ cli_args \in CliArgs
    /\ main_pc = "start" /\ images = <<>> /\ files = {} /\ main_error = "none"

(* lines 1779-1789: next() over Mode raises StopIteration without --mode *)
ParseArgs ==
    /\ main_pc = "start"
    /\ IF cli_args.mode = NoMode
       THEN main_pc' = "raised" /\ main_error' = "StopIteration" /\ UNCHANGED images
       ELSE /\ main_pc' = Plan(cli_args.mode)[1]
            /\ images' = Enter(images, Plan(cli_args.mode)[1])
            /\ UNCHANGED main_error
    /\ UNCHANGED <<cli_args, files, layout_vars, grad_vars, scaler_vars, symbol_vars>>

(* one drawing step of the render under way *)
Draw ==
    /\ Rendering
    /\ images[ImageOf(main_pc)].drawn < MaxDrawSteps
    /\ images' = [images EXCEPT ![ImageOf(main_pc)].drawn = @ + 1]
    /\ UNCHANGED <<cli_args, main_pc, files, main_error,
                   layout_vars, grad_vars, scaler_vars, symbol_vars>>

(* a step of the render under way raises *)
Raise ==
    /\ Rendering
    /\ main_pc' = AfterRaise(cli_args.mode, main_pc)
    /\ main_error' = ImageOf(main_pc)
    /\ UNCHANGED <<cli_args, images, files, layout_vars, grad_vars, scaler_vars, symbol_vars>>

(* the render under way returns its image *)
Return ==
    /\ Rendering
    /\ images[ImageOf(main_pc)].drawn = MaxDrawSteps
    /\ images' = Enter([images EXCEPT ![ImageOf(main_pc)].returned = TRUE],
                       NextCall(cli_args.mode, main_pc))
    /\ main_pc' = NextCall(cli_args.mode, main_pc)
    /\ UNCHANGED <<cli_args, files, main_error,
                   layout_vars, grad_vars, scaler_vars, symbol_vars>>

(* save_png, lines 1746-1751: the image as it is in memory goes to the     *)
(* file basename[.suffix].png                                              *)
SavePng ==
    /\ Saving
    /\ files' = files \cup {[model |-> cli_args.model, basename |-> BasenameOf(main_pc),
                              suffix |-> output_suffix(cli_args),
                              of |-> ImageOf(main_pc), image |-> images[ImageOf(main_pc)]]}
    /\ main_pc' = NextCall(cli_args.mode, main_pc)
    /\ UNCHANGED <<cli_args, images, main_error,
                   layout_vars, grad_vars, scaler_vars, symbol_vars>>

NextMain == ParseArgs \/ Draw \/ Raise \/ Return \/ SavePng

SpecMain == InitMain /\ [][NextMain]_vars

----------------------------------------------------------------------------
(* Graduation: what a call returned *)

PatAutoReturned == grad_call.op = "pat_auto" /\ grad_ret.status = "returned"

(* the value step / sf of an index step, sf a power of ten *)
StepValue(step, sf) ==
    IF sf <= Fix THEN step * (Fix \div sf) ELSE step \div (sf \div Fix)

(* the minimum realized tick gap of a call of pat_auto for the finest step *)
(* step4 of the subdivision it returned, in pixels counted in 10^-5        *)
RealizedGap ==
    min_offset_for_delta(grad_call.sc, grad_ret.x_start, grad_ret.x_end,
                         StepValue(grad_ret.steps_i[4], grad_ret.sf), grad_call.g.SL)

(* the gap of the catalog entry keyed i for the call of pat_auto *)
GapOf(i) ==
    min_offset_for_delta(grad_call.sc, grad_ret.x_start, grad_ret.x_end,
                         StepDelta(grad_ret.step_num, i, grad_ret.sf), grad_call.g.SL)

MinGap == min_tick_offset(grad_call.g) * Fix

CatalogKeys == DOMAIN TF_BY_MIN

(* C12: pat_auto always returns a catalog subdivision; the minimum         *)
(* realized tick gap of the one it returns (min_offset_for_delta with its  *)
(* finest step) is at least the minimum legible gap, unless no catalog     *)
(* entry has a legible gap, and then it returns the coarsest entry, key 1  *)
(* with factors (1, 1, 1).                                                 *)
C12_ReturnedGapIsLegible ==
    (grad_call.op = "pat_auto" /\ grad_ret.status # "none") =>
        /\ grad_ret.status = "returned"
        /\ grad_ret.sub_div4 \in CatalogTriples
        /\ RealizedGap < MinGap =>
              /\ grad_ret.sub_div4 = TF_BY_MIN[1]
              /\ grad_ret.steps_i[4] = grad_ret.step_num
              /\ \A i \in CatalogKeys : GapOf(i) < MinGap

(* a finer entry was passed over for its gap and the one returned is legible *)
C12_Witness ==
    /\ PatAutoReturned
    /\ grad_ret.key \notin {0, 1}
    /\ \E i \in CatalogKeys : i > grad_ret.key /\ i <= grad_ret.step_num /\ GapOf(i) < MinGap
    /\ RealizedGap >= MinGap

(* no entry is legible and the coarsest is returned *)
C12_WitnessCoarsest ==
    /\ PatAutoReturned
    /\ grad_ret.key = 0 /\ grad_ret.sub_div4 = <<1, 1, 1>>
    /\ RealizedGap < MinGap

(* the steps a call derived with t_s: those it returned, or those handed   *)
(* to Renderer.pat                                                         *)
StepsOf == IF grad_call.op = "pat" THEN grad_call.steps_i ELSE grad_ret.steps_i

(* C13: the steps t_s derives from an outer step s1 >= 1 and a triple of   *)
(* factors >= 1 are ordered, step4 <= step3 <= step2 <= step1 = s1, for    *)
(* every triple of the catalog and of the hand-tuned recipes, and so are   *)
(* the steps pat_auto and Ruler.pat derive with it.                        *)
C13_StepsAreOrdered ==
    /\ (grad_call.op = "t_s" /\ grad_ret.status # "none") =>
          grad_ret.steps_i[1] = grad_call.s1
    /\ (grad_call.op \in {"t_s", "pat_auto", "ruler_pat"} /\ grad_ret.status # "none") =>
          /\ grad_ret.steps_i[4] <= grad_ret.steps_i[3]
          /\ grad_ret.steps_i[3] <= grad_ret.steps_i[2]
          /\ grad_ret.steps_i[2] <= grad_ret.steps_i[1]
          /\ grad_ret.steps_i[4] >= 0

(* t_s divided by all three factors of a triple *)
C13_Witness ==
    /\ grad_call.op = "t_s" /\ grad_ret.status = "returned"
    /\ grad_call.f \in RecipeTriples /\ \A k \in 1..3 : grad_call.f[k] > 1
    /\ grad_ret.steps_i[4] < grad_ret.steps_i[3]
    /\ grad_ret.steps_i[3] < grad_ret.steps_i[2]
    /\ grad_ret.steps_i[2] < grad_ret.steps_i[1]

(* Scenario A: the C scale over [1, 10], 8000 pixels long, with a minimum  *)
(* tick gap of 30 pixels (a tick stroke of 10)                             *)
ScenarioA ==
    /\ grad_call.op = "pat_auto" /\ grad_ret.status # "none"
    /\ grad_call.sc = GradScales.C
    /\ grad_call.x_start = Fix /\ grad_call.x_end = 10 * Fix
    /\ grad_call.g.SL = 8000 /\ min_tick_offset(grad_call.g) = 30

(* the indices of the ticks that carry a numeral in the font *)
Labelled(font) ==
    {grad_ret.ticks[k].i : k \in {j \in DOMAIN grad_ret.ticks : grad_ret.ticks[j].numeral.font = font}}

(* the steps relative to an outer step of 100 *)
RelativeSteps == [k \in 1..4 |-> (grad_ret.steps_i[k] * 100) \div grad_ret.steps_i[1]]

(* C14 as stated: in Scenario A pat_auto selects the catalog subdivision   *)
(* keyed 50, relative steps 100/50/10/2, and labels the ticks at the       *)
(* integers 1..10.                                                         *)
C14_ScenarioASelects50 ==
    ScenarioA =>
        /\ grad_ret.key = 50
        /\ RelativeSteps = <<100, 50, 10, 2>>
        /\ grad_call.include_last =>
              Labelled("N_LG") = {n * grad_ret.sf : n \in 1..10}

(* C14: in Scenario A pat_auto selects the catalog subdivision keyed 10,   *)
(* factors (2, 5, 1) and relative steps 100/50/10/10 (the gap of the       *)
(* entries keyed 50, 25 and 20 is below 30 pixels); it labels the ticks at *)
(* the integers 1..9 in the large font, and at 10 as well when the last    *)
(* value is included, and the ticks at the halves 1.5..9.5 in the small    *)
(* font.                                                                   *)
C14_ScenarioASelects10 ==
    ScenarioA =>
        /\ grad_ret.key = 10 /\ grad_ret.sub_div4 = <<2, 5, 1>>
        /\ RelativeSteps = <<100, 50, 10, 10>>
        /\ \A i \in {50, 25, 20} : GapOf(i) < MinGap
        /\ GapOf(10) >= MinGap
        /\ Labelled("N_LG") =
              {n * grad_ret.sf : n \in 1..(IF grad_call.include_last THEN 10 ELSE 9)}
        /\ Labelled("N_SM") = {n * grad_ret.sf + grad_ret.sf \div 2 : n \in 1..9}
        /\ Labelled("N_XS") = {}

C14_Witness ==
    /\ ScenarioA /\ grad_ret.status = "returned" /\ grad_call.include_last
    /\ grad_ret.key = 10
    /\ Len(grad_ret.ticks) = 91
(* the transform of the scale a call graduates *)
Scaler == grad_call.sc.scaler

InDomain(x) == Scaler.min_x <= x /\ x <= Scaler.max_x

(* C15 as stated: every value Renderer.pat hands to the transform of the   *)
(* scale, directly or from pat_auto, lies in the declared domain           *)
(* [min_x, max_x] of the transform: nothing reaches the transform          *)
(* unclamped and outside its domain.                                       *)
C15_TransformArgumentIsInDomain ==
    (grad_call.op \in {"pat", "pat_auto"} /\ grad_ret.status # "none") =>
        \A x \in grad_ret.scale_to_x : InDomain(x)


(* the key of the subdivision pat_auto returned *)
SelectedKey == IF grad_ret.key = 0 THEN 1 ELSE grad_ret.key

(* C19 as stated: pat_auto returns the first entry, scanning the catalog   *)
(* from key 500 down to key 1, whose minimum tick gap at both ends of the  *)
(* range is at least the minimum legible gap: no entry with a larger key   *)
(* than the returned one has a legible gap.                                *)
C19_NoFinerEntryIsLegible ==
    PatAutoReturned =>
        \A i \in CatalogKeys : i > SelectedKey => GapOf(i) < MinGap

(* C19: pat_auto scans the catalog from key 500 down to key 1, passes over *)
(* every key larger than the outer step step_num, and returns the first    *)
(* of the others whose minimum tick gap at both ends of the range is at    *)
(* least the minimum legible gap: no entry with a larger key than the      *)
(* returned one, and a key of at most step_num, has a legible gap.         *)
C19_NoFinerEntryUpToStepIsLegible ==
    PatAutoReturned =>
        /\ grad_ret.key # 0 =>
              /\ grad_ret.key \in CatalogKeys /\ grad_ret.key <= grad_ret.step_num
              /\ GapOf(grad_ret.key) >= MinGap
              /\ grad_ret.sub_div4 = TF_BY_MIN[grad_ret.key]
        /\ \A i \in CatalogKeys :
              (i > grad_ret.key /\ i <= grad_ret.step_num) => GapOf(i) < MinGap

(* the outer step is below 500, a key above it has a legible gap, and the  *)
(* entry returned is coarser than that one                                 *)
C19_Witness ==
    /\ PatAutoReturned
    /\ grad_ret.step_num < 500
    /\ grad_ret.key > 1
    /\ \E i \in CatalogKeys : i > grad_ret.step_num /\ GapOf(i) >= MinGap

PatReturned == grad_call.op \in {"pat", "pat_auto", "ruler_pat"} /\ grad_ret.status = "returned"

(* the arguments i_start, i_end, steps_th and steps_font Renderer.pat ran  *)
(* with, for the direct calls and for the loop of Ruler.pat                *)
PatArgs ==
    IF grad_call.op = "pat"
    THEN [i_start |-> grad_call.i_start, i_end |-> grad_call.i_end,
          steps_th |-> grad_call.steps_th, steps_font |-> grad_call.steps_font]
    ELSE [i_start |-> 0,
          i_end |-> Min(grad_call.ruler.num_units,
                        IntOf(2 * grad_call.g.side_w
                                - grad_call.ruler.left_offset2 * grad_call.ruler.pixels_per_unit,
                              2 * grad_call.ruler.pixels_per_unit))
                    * grad_ret.steps_i[1] + 1,
          steps_th |-> <<"LG", "MED", "XS", "DOT">>,
          steps_font |-> <<"N_LG", NoFont, NoFont>>]

(* the coarsest of the levels 1..3 whose step divides i, 4 if none does *)
LevelOf(i) ==
    IF i % StepsOf[1] = 0 THEN 1
    ELSE IF i % StepsOf[2] = 0 THEN 2
    ELSE IF i % StepsOf[3] = 0 THEN 3
    ELSE 4

(* the distinct heights of the ticks drawn *)
DistinctHeights == Cardinality({PatArgs.steps_th[l] : l \in 1..4}) = 4

(* C20: Renderer.pat (and the loop of Ruler.pat) draws exactly one tick    *)
(* for every index i_start + k * step4 below i_end, in that order; the     *)
(* height of the tick is that of the coarsest of the levels step1, step2,  *)
(* step3 that divides the index, with at most the numeral of that level    *)
(* (none if the level has no font); an index no level divides gets the     *)
(* fourth height and no numeral.                                           *)
C20_OneTickPerIndexCoarsestLevelWins ==
    (grad_call.op \in {"pat", "ruler_pat"} /\ grad_ret.status = "returned") =>
        LET a == PatArgs
            step4 == IF grad_call.op = "pat" THEN StepsOf[4] ELSE 1
            idx == {i \in a.i_start..(a.i_end - 1) : (i - a.i_start) % step4 = 0}
        IN  /\ Len(grad_ret.ticks) = Cardinality(idx)
            /\ \A k \in DOMAIN grad_ret.ticks :
                  LET t == grad_ret.ticks[k]
                      lvl == LevelOf(t.i)
                  IN  /\ t.i = a.i_start + (k - 1) * step4
                      /\ t.tick_h = a.steps_th[lvl]
                      /\ t.numeral.font = IF lvl < 4 THEN a.steps_font[lvl] ELSE NoFont

(* one index is a multiple of all three levels and has the first height,   *)
(* one of the second and third only and has the second, one of none        *)
C20_Witness ==
    /\ grad_call.op = "pat" /\ grad_ret.status = "returned" /\ DistinctHeights
    /\ StepsOf[3] < StepsOf[2] /\ StepsOf[2] < StepsOf[1] /\ StepsOf[4] < StepsOf[3]
    /\ \A l \in 1..3 : grad_call.steps_font[l] # NoFont
    /\ \E k \in DOMAIN grad_ret.ticks :
          /\ \A l \in 1..3 : grad_ret.ticks[k].i % StepsOf[l] = 0
          /\ grad_ret.ticks[k].tick_h = grad_call.steps_th[1]
          /\ grad_ret.ticks[k].numeral.font = grad_call.steps_font[1]
    /\ \E k \in DOMAIN grad_ret.ticks :
          /\ grad_ret.ticks[k].i % StepsOf[1] # 0
          /\ \A l \in 2..3 : grad_ret.ticks[k].i % StepsOf[l] = 0
          /\ grad_ret.ticks[k].tick_h = grad_call.steps_th[2]
    /\ \E k \in DOMAIN grad_ret.ticks :
          /\ \A l \in 1..3 : grad_ret.ticks[k].i % StepsOf[l] # 0
          /\ grad_ret.ticks[k].tick_h = grad_call.steps_th[4]
          /\ grad_ret.ticks[k].numeral = NoNumeral
----------------------------------------------------------------------------
(* Transforms: what a round trip returned *)

(* equal within a thousandth of the value, the tolerance the grid of       *)
(* 10^-5 and its rounded tables allow                                      *)
Close(w, v) == Abs(w - v) <= Abs(v) \div 1000

RoundTripDone == scaler_call.op = "position_of" /\ scaler_ret.status \in {"value", "raised"}

(* C16 as stated: for every transform T of ScaleFNs and every value v of   *)
(* its declared domain, T.value_at(T.position_of(v)) returns v within      *)
(* tolerance: the declared inverse is the inverse of the forward function. *)
C16_RoundTripReturnsTheValue ==
    RoundTripDone =>
        /\ scaler_ret.status = "value"
        /\ Close(scaler_ret.value, scaler_call.value)

----------------------------------------------------------------------------
(* Labels: what symbol_parts returned *)

SymbolReturned == symbol_call.op = "symbol_parts" /\ symbol_ret.status = "returned"

EndsInPrime(symbol) == Len(symbol) > 1 /\ symbol[Len(symbol)] \in PRIMES

(* no character of the exponent or subscript syntax: no caret, underscore, *)
(* superscript or subscript character, and no prime at the end             *)
Plain(symbol) ==
    /\ ~EndsInPrime(symbol)
    /\ \A k \in DOMAIN symbol :
          symbol[k] \notin {"^", "_"} \cup SuperscriptClass \cup SubscriptClass

(* C17: symbol_parts returns (base, exponent or None, subscript or None):  *)
(* ('x', '2', None) for 'x^2'; ('x', None, 'y') for 'x_y'; for a label of  *)
(* more than one character that ends in a prime, the label without the     *)
(* prime, the prime, and None; for a label without exponent or subscript   *)
(* syntax, the label, None and None.                                       *)
C17_SymbolPartsDecomposes ==
    SymbolReturned =>
        LET symbol == symbol_call.symbol
            parts == symbol_ret.parts
        IN  /\ Len(parts) = 3
            /\ symbol = <<"x", "^", "2">> => parts = << <<"x">>, <<"2">>, NoPart >>
            /\ symbol = <<"x", "_", "y">> => parts = << <<"x">>, NoPart, <<"y">> >>
            /\ EndsInPrime(symbol) =>
                  parts = <<SubSeq(symbol, 1, Len(symbol) - 1), <<"'">>, NoPart>>
            /\ Plain(symbol) => parts = <<symbol, NoPart, NoPart>>

(* a label with a subscript underscore that ends in a prime: the prime is  *)
(* the exponent and there is no subscript                                  *)
C17_Witness ==
    /\ SymbolReturned
    /\ symbol_call.symbol = <<"x", "_", "'">>
    /\ symbol_ret.parts = << <<"x", "_">>, <<"'">>, NoPart >>

----------------------------------------------------------------------------
(* The command line: what is on disk *)

(* C18: in every mode a file holds an image whose render has returned,     *)
(* with all its drawing steps done, and is written by main after that      *)
(* return; when a step of a render has raised there is no file of that     *)
(* image.                                                                  *)
C18_OnlyReturnedImagesAreSaved ==
    /\ \A f \in files :
          /\ f.image.returned /\ f.image.drawn = MaxDrawSteps
          /\ f.of \in DOMAIN images /\ images[f.of] = f.image
    /\ main_error \in {"sliderule_img", "diagnostic_img", "stickerprint_img"} =>
          \A f \in files : f.of # main_error
    /\ main_pc = "raised" => main_error # "none"

(* stickerprint mode: the second render raised after a drawing step and    *)
(* nothing is on disk                                                      *)
C18_Witness ==
    /\ cli_args.op = "main" /\ cli_args.mode = STICKERPRINT
    /\ main_pc = "raised" /\ main_error = "stickerprint_img"
    /\ DOMAIN images = {"sliderule_img", "stickerprint_img"}
    /\ images["sliderule_img"].returned
    /\ images["stickerprint_img"].drawn = 1
    /\ files = {}

(* render mode: the image is on disk after its render returned *)
C18_WitnessSaved ==
    /\ cli_args.op = "main" /\ cli_args.mode = RENDER /\ main_pc = "return"
    /\ \E f \in files : f.basename = "SlideRuleScales" /\ f.suffix = "test" /\ f.image.returned

----------------------------------------------------------------------------
(* Numerals reduced to one digit *)

SigDigitReturned == grad_call.op = "sig_digit_of" /\ grad_ret.status = "returned"

(* the number sig_digit_of was called with *)
SigNum == DivSf(grad_call.i, grad_call.i_sf)

(* the first and the last digit of a positive number that are not zero *)
FirstSignificant(x) == LeadingDigit(x)
LastSignificant(x) == LastNonZeroDigit(x)

(* C21: sig_digit_of returns one digit 0..9: the leading digit of a power  *)
(* of ten or a multiple of 10, else the last significant digit of a value  *)
(* below 1, else the leading digit.                                        *)
C21_SigDigitIsOneDigit ==
    SigDigitReturned /\ SigNum > 0 =>
        /\ grad_ret.num \in {d * Fix : d \in 0..9}
        /\ grad_ret.num =
              IF IsPowerOfTen(SigNum) \/ SigNum % (10 * Fix) = 0
              THEN first_digit_of(SigNum).num
              ELSE IF SigNum < Fix THEN LastSignificant(SigNum) * Fix
              ELSE FirstSignificant(SigNum) * Fix

----------------------------------------------------------------------------
(* Graduation: where the ticks start *)

PatAutoDrew == PatAutoReturned /\ Len(grad_ret.ticks) > 0

FirstIndex == grad_ret.ticks[1].i

(* i / sf >= x, for x on the grid of Fix and sf a power of ten *)
AtOrAfter(i, sf, x) ==
    IF sf <= Fix THEN i * (Fix \div sf) >= x ELSE i >= x * (sf \div Fix)

(* C22: the first index pat_auto emits is a multiple of step4, i0 / sf is  *)
(* at or after x_start and (i0 - step4) / sf is before x_start.            *)
C22_FirstIndexIsAtOrAfterStart ==
    PatAutoDrew =>
        /\ FirstIndex % grad_ret.steps_i[4] = 0
        /\ AtOrAfter(FirstIndex, grad_ret.sf, grad_ret.x_start)
        /\ ~AtOrAfter(FirstIndex - grad_ret.steps_i[4], grad_ret.sf, grad_ret.x_start)

----------------------------------------------------------------------------
(* Graduation: the segments of the generic fallback *)

DefaultReturned == grad_call.op = "grad_pat_default" /\ grad_ret.status = "returned"

(* the breakpoints of the scale: its dividers, else the powers of ten in   *)
(* its range                                                               *)
Breakpoints ==
    IF grad_call.s.dividers # <<>> THEN grad_call.s.dividers
    ELSE powers_of_ten_in_range(grad_call.s.sc)

StartValue ==
    IF grad_call.s.ex_start_value # 0 THEN grad_call.s.ex_start_value
    ELSE value_at_start(grad_call.s.sc)

EndValue ==
    IF grad_call.s.ex_end_value # 0 THEN grad_call.s.ex_end_value
    ELSE value_at_end(grad_call.s.sc)

(* the values of the ticks the k-th call of pat_auto draws *)
TickValues(k) ==
    {DivSf(grad_ret.calls[k].ticks[j].i, grad_ret.calls[k].sf) :
        j \in DOMAIN grad_ret.calls[k].ticks}

(* one call per segment, in order, the last one alone including its end *)
OneCallPerSegment ==
    /\ Len(grad_ret.calls) = Len(Breakpoints) + 1
    /\ \A k \in DOMAIN grad_ret.calls :
          /\ grad_ret.calls[k].x_start = IF k = 1 THEN StartValue ELSE Breakpoints[k - 1]
          /\ grad_ret.calls[k].x_end =
                IF k = Len(grad_ret.calls) THEN EndValue ELSE Breakpoints[k]
          /\ grad_ret.calls[k].include_last = (k = Len(grad_ret.calls))
          /\ grad_ret.calls[k].status = "returned"

(* the index of the k-th breakpoint is a multiple of the finest step of    *)
(* the segment that starts at it                                           *)
OnStep(k) ==
    TimesSf(Breakpoints[k], grad_ret.calls[k + 1].sf) % grad_ret.calls[k + 1].steps_i[4] = 0

C23_WitnessOffStep ==
    /\ DefaultReturned
    /\ grad_call.s.dividers = <<35 * (Fix \div 100), Fix>>
    /\ ~OnStep(1)
    /\ grad_ret.calls[2].ticks[1].i = 3520

(* no dividers and no power of ten in range: one call, the end included *)
C23_WitnessOneSegment ==
    /\ DefaultReturned /\ Breakpoints = <<>>
    /\ Len(grad_ret.calls) = 1 /\ grad_ret.calls[1].include_last
    /\ Len(grad_ret.calls[1].ticks) > 1

----------------------------------------------------------------------------
(* Graduation: the ends of the range in either order *)

(* C24: for two distinct non-zero bounds, pat_auto called with the bounds  *)
(* exchanged selects the same subdivision and draws the same ticks and     *)
(* numerals in the same order.                                             *)
C24_ExchangedBoundsDrawTheSame ==
    /\ PatAutoReturned
    /\ grad_call.x_start # 0 /\ grad_call.x_end # 0
    /\ grad_call.x_start # grad_call.x_end
    => grad_ret = pat_auto(grad_call.sc, grad_call.x_end, grad_call.x_start,
                           grad_call.include_last, grad_call.g, grad_call.sym_w)

(* a call with x_start above x_end that drew ticks with numerals, the last *)
(* index among them                                                        *)
C24_Witness ==
    /\ PatAutoReturned
    /\ grad_call.x_start = 2 * Fix /\ grad_call.x_end = Fix /\ grad_call.include_last
    /\ grad_ret.x_start = Fix /\ grad_ret.x_end = 2 * Fix
    /\ Len(grad_ret.ticks) > 10
    /\ grad_ret.ticks[1].numeral.font # NoFont
    /\ DivSf(grad_ret.ticks[Len(grad_ret.ticks)].i, grad_ret.sf) = 2 * Fix

----------------------------------------------------------------------------
(* Graduation: numerals of the third level *)

(* C25: pat_auto passes a font for the numerals of the third level only    *)
(* when step4 < step3 and at least 8 characters fit in the gap of the      *)
(* numerals.                                                               *)
C25_ThirdLevelNumeralsNeedRoom ==
    PatAutoReturned /\ grad_ret.steps_font[3] # NoFont =>
        /\ grad_ret.steps_i[4] < grad_ret.steps_i[3]
        /\ grad_ret.max_num_chars >= 8

(* numerals of the third level were drawn *)
C25_Witness ==
    /\ PatAutoReturned
    /\ grad_ret.steps_font[3] = "N_XS"
    /\ \E k \in DOMAIN grad_ret.ticks : grad_ret.ticks[k].numeral.font = "N_XS"

(* sub-unit ticks and no room: no font for the third level *)
C25_WitnessNoRoom ==
    /\ PatAutoReturned
    /\ grad_ret.steps_i[4] < grad_ret.steps_i[3]
    /\ grad_ret.steps_i[3] = grad_ret.step_num \div 10
    /\ grad_ret.max_num_chars <= 8
    /\ grad_ret.steps_font[3] = NoFont
    /\ Len(grad_ret.ticks) > 0

(* room and no sub-unit ticks: no font for the third level *)
C25_WitnessNoSubUnit ==
    /\ PatAutoReturned
    /\ grad_ret.steps_i[4] = grad_ret.steps_i[3]
    /\ grad_ret.max_num_chars > 8
    /\ grad_ret.steps_font[3] = NoFont
    /\ Len(grad_ret.ticks) > 0

----------------------------------------------------------------------------
(* Graduation: the subdivision loses nothing to floor division *)

(* steps derived from the outer step step_num with the catalog entry key *)
ExactSteps(step_num, key, steps) ==
    /\ steps[4] >= 1
    /\ steps[4] * key = step_num
    /\ \A k \in 1..3 : steps[k] % steps[k + 1] = 0

(* pat_auto returned or raised *)
PatAutoEnded == grad_call.op = "pat_auto" /\ grad_ret.status # "none"

(* the ticks of a call are step4 apart *)
TicksAreStep4Apart ==
    \A k \in 1..(Len(grad_ret.ticks) - 1) :
        grad_ret.ticks[k + 1].i - grad_ret.ticks[k].i = grad_ret.steps_i[4]

(* C26: for an outer step that is a power of ten and a catalog entry whose *)
(* key is at most the outer step (or the fallback entry 1), t_s gives      *)
(* step4 >= 1 with step4 = step_num / key exactly and each step a multiple *)
(* of the next finer one; the delta pat_auto tests for legibility is the   *)
(* spacing of the finest ticks it draws.                                   *)
C26_SubdivisionIsExact ==
    /\ PatAutoEnded =>
        /\ IsPowerOfTen(grad_ret.step_num)
        /\ SelectedKey \in DOMAIN TF_BY_MIN /\ SelectedKey <= grad_ret.step_num
        /\ ExactSteps(grad_ret.step_num, SelectedKey, grad_ret.steps_i)
        /\ StepDelta(grad_ret.step_num, SelectedKey, grad_ret.sf)
               = StepValue(grad_ret.steps_i[4], grad_ret.sf)
        /\ TicksAreStep4Apart
    /\ (grad_call.op = "t_s" /\ grad_ret.status = "returned" /\ IsPowerOfTen(grad_call.s1)) =>
        \A key \in DOMAIN TF_BY_MIN :
            key <= grad_call.s1 /\ grad_call.f = TF_BY_MIN[key]
                => ExactSteps(grad_call.s1, key, grad_ret.steps_i)

(* pat_auto drew ticks with an entry that divides the outer step in three *)
C26_Witness ==
    /\ PatAutoReturned
    /\ SelectedKey >= 50
    /\ grad_ret.steps_i[4] < grad_ret.steps_i[3]
    /\ grad_ret.steps_i[3] < grad_ret.steps_i[2]
    /\ grad_ret.steps_i[2] < grad_ret.step_num
    /\ Len(grad_ret.ticks) > 1

(* the fallback entry was taken: no entry qualified *)
C26_WitnessFallback ==
    /\ PatAutoReturned
    /\ grad_ret.key = 0
    /\ grad_ret.steps_i[4] = grad_ret.step_num
    /\ Len(grad_ret.ticks) > 0

(* t_s divided 1000 by the entry of key 500 *)
C26_WitnessFinestEntry ==
    /\ grad_call.op = "t_s" /\ grad_ret.status = "returned"
    /\ grad_call.s1 = 1000 /\ grad_call.f = TF_BY_MIN[500]
    /\ grad_ret.steps_i = <<1000, 100, 10, 2>>

----------------------------------------------------------------------------
(* Tick placement: the recipe gen_scale takes for a scale *)

GenScaleReturned == grad_call.op = "gen_scale" /\ grad_ret.status = "returned"

(* the transforms of the family each recipe is written for *)
FamilyOf ==
    [r \in {"C/D", "A/B", "K", "R1", "R2", "CF/DF", "L", "S/T", "T2", "ST", "Pct"} |->
        CASE r \in {"C/D", "CF/DF"} -> {"Base", "Inverse"}
          [] r = "A/B" -> {"Square", "InverseSquare"}
          [] r = "K" -> {"Cube"}
          [] r \in {"R1", "R2"} -> {"SquareRoot"}
          [] r = "L" -> {"Log10"}
          [] r = "S/T" -> {"Sin", "CoSin", "Tan", "CoTan"}
          [] r = "T2" -> {"Tan"}
          [] r = "ST" -> {"SinTan"}
          [] r = "Pct" -> {"Pct"}]

(* the scale is graduated by the fallback over its own dividers *)
GraduatedOverOwnDividers ==
    /\ grad_ret.recipe = "default" /\ grad_ret.pats = <<>>
    /\ Len(grad_ret.calls) = Len(grad_call.s.dividers) + 1
    /\ \A k \in DOMAIN grad_call.s.dividers :
           grad_ret.calls[k + 1].x_start = grad_call.s.dividers[k]

(* C27 as stated: gen_scale takes the recipe of a family only for a scale  *)
(* whose transform belongs to the family; a scale whose transform is not   *)
(* the tangent is never drawn with the recipe of T2, and a scale that only *)
(* has the key T2 is graduated by the fallback over its own dividers.      *)
C27_RecipeOnlyForItsFamily ==
    GenScaleReturned =>
        /\ grad_ret.recipe # "default" =>
               grad_call.s.sc.scaler.fn \in FamilyOf[grad_ret.recipe]
        /\ (grad_call.s.sc.key = "T2" /\ grad_call.s.sc.scaler.fn # "Tan") =>
               GraduatedOverOwnDividers

----------------------------------------------------------------------------
(* Tick placement: the index ranges of the calls of one recipe *)

(* the indices the k-th call of Renderer.pat of the recipe put a tick at *)
IndicesOf(k) == {grad_ret.pats[k].ticks[j].i : j \in DOMAIN grad_ret.pats[k].ticks}

(* the k-th call includes the value its range ends at *)
EndIsClosed(k) == (grad_ret.pats[k].i_end - 1) \in IndicesOf(k)

(* C28 as stated: in the recipes of the base (1-2-4-10), squared           *)
(* (1-2-5-10 a decade) and cube (1-3-6-10 a decade) scales no index is     *)
(* given a tick by more than one call of Renderer.pat, and the only range  *)
(* that includes its end is the last one of the scale.                     *)
C28_RangesOfARecipeAreDisjoint ==
    (GenScaleReturned /\ grad_ret.recipe \in {"C/D", "A/B", "K"}) =>
        /\ \A j, k \in DOMAIN grad_ret.pats : j < k => IndicesOf(j) \cap IndicesOf(k) = {}
        /\ \A k \in DOMAIN grad_ret.pats : EndIsClosed(k) => k = Len(grad_ret.pats)

----------------------------------------------------------------------------
(* Layout: the mapping of overrides the caller supplied *)

(* C29 as stated: constructing a Layout leaves the align_overrides the     *)
(* caller supplied as it was: each per-side dictionary has exactly the     *)
(* entries it had before.                                                  *)
C29_OverridesAreLeftAsSupplied ==
    [][Inferred => align_overrides' = align_overrides]_vars

----------------------------------------------------------------------------
(* Layout: the two sides are inferred apart *)

OtherSide(side) == IF side = FRONT THEN REAR ELSE FRONT

(* the keys of the layout with the other side left empty *)
OnlySide(keys, side) ==
    [s \in {FRONT, REAR} |->
        IF s = side THEN keys[s] ELSE [p \in {STATOR_TOP, SLIDE, STATOR_BOTTOM} |-> <<>>]]

(* the key is placed somewhere on the side *)
PlacedOn(side, key) == \E m \in 1..Len(Placed(side)) : Placed(side)[m].sc.key = key

(* a placement of the side whose alignment comes from line 1238, for the   *)
(* first time for its key, and whose partner stands on the other side but  *)
(* not earlier on its own side                                             *)
PartnerOnlyOnOtherSide(side, P, n) ==
    /\ PlainCase(side, P, n) /\ ~KeyPlacedEarlier(P, n)
    /\ P[n].sc.opp_key # NoKey
    /\ ~PartnerPlacedEarlier(P, n)
    /\ PlacedOn(OtherSide(side), P[n].sc.opp_key)

C30_WitnessFront ==
    /\ pc = "done"
    /\ LET P == Placed(FRONT) IN
       \E n \in 1..Len(P) :
           /\ PartnerOnlyOnOtherSide(FRONT, P, n)
           /\ ~PlacedOn(FRONT, P[n].sc.opp_key)
           /\ scale_aligns[FRONT][P[n].sc.key] = LOWER

====
